---------------------------- MODULE Spec2Model ----------------------------
(***************************************************************************)
(* A model of pgkit's engines: the statement splitter                      *)
(* SqlExecutor._split_queries (SpecSplit), the two transaction policies of *)
(* SqlExecutor.execute_files (SpecExec), VerificationService.verify        *)
(* (SpecVerify), SchemaDumper.dump / dump_database (SpecDump),             *)
(* SchemaDumper._format_value (SpecFormat) and the task management of the  *)
(* main window, MainApplication (SpecUi).                                  *)
(* Each specification runs one machine and holds the other ones idle;      *)
(* SpecRecovery is one call of either execute_files or verify, SpecUiLive  *)
(* is SpecUi with fair worker threads and polling, SpecConn is the         *)
(* ConnectionService called directly and SpecPreset the PresetManager.     *)
(*                                                                         *)
(* Text is modelled as a sequence of one-character strings, so that the    *)
(* string methods the code uses (strip, startswith, count, endswith,       *)
(* split, join) are computed character by character.                       *)
(***************************************************************************)
EXTENDS Integers, Sequences, FiniteSets, TLC

VARIABLES
    \* ---- SqlExecutor._split_queries, one run of the line loop
    sql,            \* the text being split
    lines,          \* sql.split("\n")
    lineIdx,        \* index in lines of the next line of the for loop
    split,          \* the locals [queries, current, in_dollar]
    splitPc,        \* "idle" | "start" | "loop" | "done"
    closedAt,       \* history: indexes of the lines at which a statement was closed
    flagAt,         \* history: value of in_dollar after each processed line
    \* ---- SqlExecutor.execute_files, one call
    pc,             \* position in execute_files / _execute_*
    file_paths,     \* argument
    single_transaction, \* argument
    conn,           \* the connection: [autocommit, pending, committed]
    autocommit0,    \* history: conn.autocommit when the call started
    prev_autocommit,\* local of _execute_*
    result,         \* ExecutionResult
    fileIdx,        \* index in file_paths of the file of the for loop
    queries,        \* local: statements of the current file
    qIdx,           \* index in queries of the next statement
    file_error,     \* local of _execute_per_file
    ops,            \* history: operations issued on the connection and file reads
    log,            \* history: tags passed to the log callback
    \* ---- VerificationService.verify, one call
    vpc,            \* position in verify / _count_rows_per_table
    db,             \* the schema verified: [tables, rows, sequences, indexes, views]
    vresult,        \* VerificationResult
    tables,         \* local of _count_rows_per_table
    rows,           \* local of _count_rows_per_table
    tIdx,           \* index in tables of the table of the for loop
    vexc,           \* the exception in flight ("" when none)
    vops,           \* history: queries issued, with their outcome
    vlog,           \* history: tags passed to the log callback
    \* ---- SchemaDumper.dump / dump_database, one call
    dpc,            \* position in dump / dump_database
    catalog,        \* the database dumped: what the catalog queries return
    call,           \* the call made: [entry, tables, include_data, schema]
    dargs,          \* arguments of the running dump()
    target_tables,  \* local of dump
    dlines,         \* local of dump: lines
    sIdx,           \* dump_database: index in schemas of the schema of the for loop
    dblines,        \* local of dump_database: lines
    total_tables,   \* local of dump_database
    dout,           \* the text returned, as its lines
    batch_size,     \* config.SCHEMA_DUMP_BATCH_SIZE
    dIdx,           \* dump, data section: index in target_tables of the table of the for loop
    cursor,         \* _dump_data: rows of the open cursor not fetched yet
    dfetches,       \* history: [table, size] of every fetchmany
    \* ---- SchemaDumper._format_value, one call
    fpc,            \* "idle" | "done"
    fvalue,         \* argument: the cell value
    fresult,        \* the SQL literal returned
    \* ---- MainApplication: UI thread, worker threads and the log queue
    is_working,     \* MainApplication._is_working
    service_conn,   \* ConnectionService._conn: a handle, or NoHandle for None
    closed,         \* the handles whose .closed is not 0
    opened,         \* number of handles psycopg2.connect has returned
    buttons,        \* ActionPanel: state of the dump, execute and verify buttons
    log_queue,      \* MainApplication._log_queue: tags of the messages
    threads,        \* the worker threads that are alive: [id, task, handle, wpc, todo]
    started,        \* number of worker threads started so far
    raced,          \* history: UI-thread operations on a handle a worker was using
    refused,        \* history: a trigger got the "work in progress" warning
    emitted,        \* history: the tags each worker thread has put, by thread id
    panel,          \* LogPanel: the tags delivered from the queue, in order
    \* ---- ConnectionService called directly (it shares service_conn, closed, opened)
    calls,          \* history: the calls made on the service: [call, ok]
    \* ---- PresetManager
    preset_file,    \* the JSON array of the preset file: a sequence of dicts
    pcall           \* history: the last call: [op, info or name, before, raised]

splitVars == <<sql, lines, lineIdx, split, splitPc, closedAt, flagAt>>
execVars  == <<pc, file_paths, single_transaction, conn, autocommit0,
               prev_autocommit, result, fileIdx, queries, qIdx, file_error,
               ops, log>>
verifyVars == <<vpc, db, vresult, tables, rows, tIdx, vexc, vops, vlog>>
dataVars == <<batch_size, dIdx, cursor, dfetches>>
dumpVars == <<dpc, catalog, call, dargs, target_tables, dlines, sIdx, dblines,
              total_tables, dout, dataVars>>
formatVars == <<fpc, fvalue, fresult>>
uiVars == <<is_working, service_conn, closed, opened, buttons, log_queue,
            threads, started, raced, refused, emitted, panel>>
svcVars == <<calls>>
presetVars == <<preset_file, pcall>>
vars == <<splitVars, execVars, verifyVars, dumpVars, formatVars, uiVars,
          svcVars, presetVars>>

nonSplitVars  == <<execVars, verifyVars, dumpVars, formatVars, uiVars, svcVars, presetVars>>
nonExecVars   == <<splitVars, verifyVars, dumpVars, formatVars, uiVars, svcVars, presetVars>>
nonVerifyVars == <<splitVars, execVars, dumpVars, formatVars, uiVars, svcVars, presetVars>>
nonDumpVars   == <<splitVars, execVars, verifyVars, formatVars, uiVars, svcVars, presetVars>>
nonFormatVars == <<splitVars, execVars, verifyVars, dumpVars, uiVars, svcVars, presetVars>>
nonUiVars     == <<splitVars, execVars, verifyVars, dumpVars, formatVars, svcVars, presetVars>>
\* what a direct call of the connection service leaves alone
nonSvcVars    == <<splitVars, execVars, verifyVars, dumpVars, formatVars, presetVars,
                   is_working, buttons, log_queue, threads, started, raced, refused,
                   emitted, panel>>
nonPresetVars == <<splitVars, execVars, verifyVars, dumpVars, formatVars, uiVars, svcVars>>

-----------------------------------------------------------------------------
(* Bounds *)

MaxLines == 3

MaxFiles == 3

MaxTables == 3

MaxRows == 1

\* _format_value: longest bytes value, longest text, longest list
MaxBytes == 2

MaxText == 3

MaxItems == 2

\* largest SCHEMA_DUMP_BATCH_SIZE; tables have up to one row more than that
MaxBatch == 2

\* MainApplication: connections made and worker threads started in one run
MaxConnects == 2

MaxTasks == 2

-----------------------------------------------------------------------------
(* Python string methods over sequences of characters *)

NL == "\n"

IsSpace(c) == c \in {" ", NL}

RECURSIVE LStrip(_)
LStrip(s) ==
    IF s # <<>> /\ IsSpace(Head(s)) THEN LStrip(Tail(s)) ELSE s

RECURSIVE RStrip(_)
RStrip(s) ==
    IF s # <<>> /\ IsSpace(s[Len(s)]) THEN RStrip(SubSeq(s, 1, Len(s) - 1)) ELSE s

Strip(s) == RStrip(LStrip(s))

StartsWithComment(s) == Len(s) >= 2 /\ s[1] = "-" /\ s[2] = "-"

EndsWithSemicolon(s) == s # <<>> /\ s[Len(s)] = ";"

\* str.count("$$"): non-overlapping occurrences, scanned left to right
RECURSIVE CountDollar(_)
CountDollar(s) ==
    IF Len(s) < 2 THEN 0
    ELSE IF s[1] = "$" /\ s[2] = "$" THEN 1 + CountDollar(SubSeq(s, 3, Len(s)))
    ELSE CountDollar(Tail(s))

\* "\n".join(ls)
RECURSIVE JoinNL(_)
JoinNL(ls) ==
    IF ls = <<>> THEN <<>>
    ELSE IF Len(ls) = 1 THEN ls[1]
    ELSE ls[1] \o <<NL>> \o JoinNL(Tail(ls))

\* s.split("\n"): never empty, "" gives [""]
RECURSIVE SplitNLFrom(_, _)
SplitNLFrom(s, cur) ==
    IF s = <<>> THEN <<cur>>
    ELSE IF Head(s) = NL THEN <<cur>> \o SplitNLFrom(Tail(s), <<>>)
    ELSE SplitNLFrom(Tail(s), Append(cur, Head(s)))

SplitNL(s) == SplitNLFrom(s, <<>>)

\* l.strip().startswith("--") or not l.strip()
CommentOrBlank(l) == StartsWithComment(Strip(l)) \/ Strip(l) = <<>>

-----------------------------------------------------------------------------
(* SqlExecutor._split_queries *)

SplitInit == [queries |-> <<>>, current |-> <<>>, in_dollar |-> FALSE]

\* a close that joins the buffered lines with a blank instead of a line break
CloseQueryJoinSpace(qs, current) ==
    LET joined == IF current = <<>> THEN <<>>
                  ELSE [k \in 1..(Len(JoinNL(current))) |->
                          IF JoinNL(current)[k] = NL THEN " " ELSE JoinNL(current)[k]]
        query  == Strip(joined)
    IN  IF query # <<>> /\ ~CommentOrBlank(query) THEN Append(qs, query) ELSE qs

\* a close that appends the buffer without the comment-only test
CloseQueryKeepAll(qs, current) == Append(qs, Strip(JoinNL(current)))

\* query = "\n".join(current).strip(); appended unless empty or comment-only
CloseQuery(qs, current) ==
    LET query == Strip(JoinNL(current))
        ls    == SplitNL(query)
    IN  IF query # <<>> /\ ~(\A k \in 1..Len(ls) : CommentOrBlank(ls[k]))
        THEN Append(qs, query)
        ELSE qs

\* a $$ detection that never toggles
ToggleNever(in_dollar, line) == in_dollar

\* in_dollar after the $$ detection of one non-comment line
Toggle(in_dollar, line) ==
    IF CountDollar(line) > 0 /\ CountDollar(line) % 2 = 1
    THEN ~in_dollar ELSE in_dollar

\* a terminator test that is not skipped inside a $$ body
IsBoundaryIgnoringFlag(in_dollar, line) == EndsWithSemicolon(Strip(line))

\* whether the line closes the buffered statement, the flag already toggled
IsBoundary(in_dollar, line) == ~in_dollar /\ EndsWithSemicolon(Strip(line))

\* a loop body without the branch of comment and blank lines
SplitLineNoSkip(st, line) ==
    LET flag == Toggle(st.in_dollar, line) IN
    IF IsBoundary(flag, line)
    THEN [queries   |-> CloseQuery(st.queries, Append(st.current, line)),
          current   |-> <<>>,
          in_dollar |-> flag]
    ELSE [queries   |-> st.queries,
          current   |-> Append(st.current, line),
          in_dollar |-> flag]

\* the body of the for loop, for one line
SplitLine(st, line) ==
    LET stripped == Strip(line) IN
    IF StartsWithComment(stripped) \/ stripped = <<>>
    THEN [st EXCEPT !.current = Append(@, line)]
    ELSE LET flag == Toggle(st.in_dollar, line) IN
         IF IsBoundary(flag, line)
         THEN [queries   |-> CloseQuery(st.queries, Append(st.current, line)),
               current   |-> <<>>,
               in_dollar |-> flag]
         ELSE [queries   |-> st.queries,
               current   |-> Append(st.current, line),
               in_dollar |-> flag]

\* a return that forgets the rest of the buffer
SplitFlushDropRest(st) == st

\* the code after the loop: the rest of the buffer
SplitFlush(st) ==
    IF st.current # <<>>
    THEN [st EXCEPT !.queries = CloseQuery(@, st.current)]
    ELSE st

RECURSIVE SplitLoop(_, _)
SplitLoop(st, ls) ==
    IF ls = <<>> THEN st ELSE SplitLoop(SplitLine(st, Head(ls)), Tail(ls))

SplitQueries(text) == SplitFlush(SplitLoop(SplitInit, SplitNL(text))).queries


-----------------------------------------------------------------------------
(* The lines the splitter is run on: one line of each kind the code tells apart *)

SplitLineSet ==
    { <<>>,                                     \* blank
      <<"-", "-", "a">>,                        \* comment
      <<"-", "-", "$", "$", ";">>,              \* comment holding $$ and ending in ;
      <<"a">>,                                  \* code, no terminator
      <<"a", ";">>,                             \* code ending in a terminator
      <<" ", "a", ";", " ">>,                   \* the same, with blanks around
      <<"a", ";", " ", "a", ";">>,              \* two terminated statements
      <<"a", "$", "$">>,                        \* opens (or closes) a $$ body
      <<"$", "$", "a", ";">>,                   \* closes (or opens) one, terminated
      <<"$", "$", "a", ";", "$", "$", ";">> }   \* a whole $$ body on one line

RECURSIVE SeqsUpTo(_, _)
SeqsUpTo(S, n) ==
    IF n = 0 THEN { <<>> }
    ELSE LET shorter == SeqsUpTo(S, n - 1) IN
         shorter \cup { Append(q, x) : q \in { r \in shorter : Len(r) = n - 1 }, x \in S }

SplitInputs == { JoinNL(ls) : ls \in SeqsUpTo(SplitLineSet, MaxLines) \ { <<>> } }

-----------------------------------------------------------------------------
(* State of the machines when they are not running *)

SplitIdle ==
    /\ sql = <<>>
    /\ lines = <<>>
    /\ lineIdx = 0
    /\ split = SplitInit
    /\ splitPc = "idle"
    /\ closedAt = {}
    /\ flagAt = <<>>

ResultInit ==
    [total_files |-> 0, success_files |-> 0, failed_files |-> 0,
     total_queries |-> 0, success_count |-> 0, error_count |-> 0]

ExecIdle ==
    /\ pc = "idle"
    /\ file_paths = <<>>
    /\ single_transaction = FALSE
    /\ conn = [autocommit |-> TRUE, pending |-> {}, committed |-> {}]
    /\ autocommit0 = TRUE
    /\ prev_autocommit = TRUE
    /\ result = ResultInit
    /\ fileIdx = 0
    /\ queries = <<>>
    /\ qIdx = 0
    /\ file_error = FALSE
    /\ ops = <<>>
    /\ log = <<>>

\* VerificationResult.__init__
VResultInit ==
    [table_count |-> 0, table_rows |-> <<>>, sequence_count |-> 0,
     index_count |-> 0, view_count |-> 0, errors |-> <<>>]

VerifyIdle ==
    /\ vpc = "idle"
    /\ db = [tables |-> {}, rows |-> <<>>, sequences |-> 0, indexes |-> 0, views |-> 0]
    /\ vresult = VResultInit
    /\ tables = <<>>
    /\ rows = <<>>
    /\ tIdx = 0
    /\ vexc = ""
    /\ vops = <<>>
    /\ vlog = <<>>

\* no dump is running
DumpIdle ==
    /\ dpc = "idle"
    /\ catalog = <<>> /\ call = <<>> /\ dargs = <<>>
    /\ target_tables = <<>> /\ dlines = <<>>
    /\ sIdx = 0 /\ dblines = <<>> /\ total_tables = 0 /\ dout = <<>>
    /\ batch_size = 0 /\ dIdx = 0 /\ cursor = <<>> /\ dfetches = <<>>

\* no value is being formatted
FormatIdle ==
    /\ fpc = "idle" /\ fvalue = << >> /\ fresult = << >>

\* ConnectionService._conn is None
NoHandle == 0

Tasks == {"dump", "execute", "verify"}

\* ActionPanel.set_enabled
SetEnabled(enabled) ==
    [b \in Tasks |-> IF enabled THEN "normal" ELSE "disabled"]

\* no direct call was made on the connection service, and the preset file
\* is empty
ServicesIdle ==
    /\ calls = <<>>
    /\ preset_file = <<>>
    /\ pcall = [op |-> "none"]

\* MainApplication.__init__: the window just built, not connected, no task
UiIdle ==
    /\ is_working = FALSE
    /\ service_conn = NoHandle /\ closed = {} /\ opened = 0
    /\ buttons = SetEnabled(FALSE)
    /\ log_queue = <<>> /\ threads = <<>>
    /\ started = 0 /\ raced = {} /\ refused = FALSE
    /\ emitted = <<>> /\ panel = <<>>

-----------------------------------------------------------------------------
(* SqlExecutor._split_queries as a machine: one step per line of the loop *)

InitSplit ==
    /\ sql \in SplitInputs
    /\ lines = <<>>
    /\ lineIdx = 0
    /\ split = SplitInit
    /\ splitPc = "start"
    /\ closedAt = {}
    /\ flagAt = <<>>
    /\ ExecIdle
    /\ VerifyIdle
    /\ DumpIdle
    /\ FormatIdle
    /\ UiIdle
    /\ ServicesIdle

\* queries = [], current = [], in_dollar = False; for line in sql.split("\n")
SplitStart ==
    /\ splitPc = "start"
    /\ lines' = SplitNL(sql)
    /\ lineIdx' = 1
    /\ split' = SplitInit
    /\ splitPc' = "loop"
    /\ UNCHANGED <<sql, closedAt, flagAt>>
    /\ UNCHANGED nonSplitVars

\* one iteration of the for loop
SplitNextLine ==
    /\ splitPc = "loop"
    /\ lineIdx <= Len(lines)
    /\ split' = SplitLine(split, lines[lineIdx])
    /\ lineIdx' = lineIdx + 1
    /\ closedAt' = IF split'.current = <<>> THEN closedAt \cup {lineIdx} ELSE closedAt
    /\ flagAt' = Append(flagAt, split'.in_dollar)
    /\ UNCHANGED <<sql, lines, splitPc>>
    /\ UNCHANGED nonSplitVars

\* after the loop: flush the buffer and return queries
SplitEnd ==
    /\ splitPc = "loop"
    /\ lineIdx > Len(lines)
    /\ split' = SplitFlush(split)
    /\ splitPc' = "done"
    /\ UNCHANGED <<sql, lines, lineIdx, closedAt, flagAt>>
    /\ UNCHANGED nonSplitVars

NextSplit == SplitStart \/ SplitNextLine \/ SplitEnd

SpecSplit == InitSplit /\ [][NextSplit]_vars


-----------------------------------------------------------------------------
(* The files execute_files is run on, and SqlExecutor._read_file *)

Encodings == << "utf-8", "cp949", "latin-1" >>

\* The file system: a path that cannot be opened, and files of 0, 1 and 2
\* statements; one.sql is not valid UTF-8 and decodes as CP949.
Paths == { "missing.sql", "empty.sql", "one.sql", "two.sql" }

FileExists(path) == path # "missing.sql"

Decodes(path, encoding) ==
    IF path = "one.sql" THEN encoding \in { "cp949", "latin-1" } ELSE TRUE

FileText(path) ==
    CASE path = "empty.sql" -> << "-", "-", "a" >>
      [] path = "one.sql"   -> << "a", ";" >>
      [] path = "two.sql"   -> << "a", ";", NL, "a", ";" >>
      [] OTHER              -> << >>

\* [ok |-> the file was read, text |-> its content]; ~ok is an IOError
RECURSIVE ReadFileFrom(_, _)
ReadFileFrom(path, k) ==
    IF k > Len(Encodings) THEN [ok |-> FALSE, text |-> << >>]
    ELSE IF ~FileExists(path) THEN [ok |-> FALSE, text |-> << >>]
    ELSE IF Decodes(path, Encodings[k]) THEN [ok |-> TRUE, text |-> FileText(path)]
    ELSE ReadFileFrom(path, k + 1)

ReadFile(path) == ReadFileFrom(path, 1)

FileLists == SeqsUpTo(Paths, MaxFiles)

-----------------------------------------------------------------------------
(* The connection: what execute, commit and rollback do to the database *)

\* a statement that succeeds takes effect in the open transaction, or at once
\* under autocommit; one that fails changes nothing
ConnExecute(c, id, ok) ==
    IF ~ok THEN c
    ELSE IF c.autocommit THEN [c EXCEPT !.committed = @ \cup {id}]
    ELSE [c EXCEPT !.pending = @ \cup {id}]

\* a commit that raises commits nothing
ConnCommit(c, ok) ==
    IF ok THEN [c EXCEPT !.committed = @ \cup c.pending, !.pending = {}]
    ELSE [c EXCEPT !.pending = {}]

ConnRollback(c, ok) == [c EXCEPT !.pending = {}]

Inc(r, f) == [r EXCEPT ![f] = @ + 1]

Op(kind, f, q, ok) == [op |-> kind, f |-> f, q |-> q, ok |-> ok]

-----------------------------------------------------------------------------
(* SqlExecutor.execute_files *)

InitExec ==
    /\ pc = "idle"
    /\ file_paths = <<>>
    /\ single_transaction = FALSE
    /\ conn \in [autocommit : BOOLEAN, pending : {{}}, committed : {{}}]
    /\ autocommit0 = conn.autocommit
    /\ prev_autocommit = conn.autocommit
    /\ result = ResultInit
    /\ fileIdx = 0
    /\ queries = <<>>
    /\ qIdx = 0
    /\ file_error = FALSE
    /\ ops = <<>>
    /\ log = <<>>
    /\ SplitIdle
    /\ VerifyIdle
    /\ DumpIdle
    /\ FormatIdle
    /\ UiIdle
    /\ ServicesIdle

\* the call, up to the dispatch on single_transaction
ExecuteFiles ==
    /\ pc = "idle"
    /\ \E fp \in FileLists, st \in BOOLEAN :
          /\ file_paths' = fp
          /\ single_transaction' = st
          /\ result' = [ResultInit EXCEPT !.total_files = Len(fp)]
          /\ pc' = IF st THEN "st_begin" ELSE "pf_begin"
    /\ autocommit0' = conn.autocommit
    /\ UNCHANGED <<conn, prev_autocommit, fileIdx, queries, qIdx, file_error, ops, log>>
    /\ UNCHANGED nonExecVars

\* result.elapsed_sec, the closing log line, return result
Finish ==
    /\ pc = "finish"
    /\ log' = Append(log, "INFO")
    /\ pc' = "done"
    /\ UNCHANGED <<file_paths, single_transaction, conn, autocommit0, prev_autocommit,
                   result, fileIdx, queries, qIdx, file_error, ops>>
    /\ UNCHANGED nonExecVars

Finished == pc \in { "done", "raised" }

argVars == <<file_paths, single_transaction, autocommit0>>

-----------------------------------------------------------------------------
(* SqlExecutor._execute_single_transaction *)

\* prev_autocommit = conn.autocommit; try: conn.autocommit = False; log
StBegin ==
    /\ pc = "st_begin"
    /\ prev_autocommit' = conn.autocommit
    /\ conn' = [conn EXCEPT !.autocommit = FALSE]
    /\ log' = Append(log, "INFO")
    /\ fileIdx' = 1
    /\ pc' = "st_file"
    /\ UNCHANGED <<argVars, result, queries, qIdx, file_error, ops>>
    /\ UNCHANGED nonExecVars

\* the for loop over file_paths is exhausted
StFilesDone ==
    /\ pc = "st_file"
    /\ fileIdx > Len(file_paths)
    /\ pc' = "st_commit"
    /\ UNCHANGED <<argVars, conn, prev_autocommit, result, fileIdx, queries, qIdx,
                   file_error, ops, log>>
    /\ UNCHANGED nonExecVars

\* sql = _read_file(); queries = _split_queries(sql); total_queries += len(queries)
StFileRead ==
    /\ pc = "st_file"
    /\ fileIdx <= Len(file_paths)
    /\ ReadFile(file_paths[fileIdx]).ok
    /\ queries' = SplitQueries(ReadFile(file_paths[fileIdx]).text)
    /\ result' = [result EXCEPT !.total_queries = @ + Len(queries')]
    /\ qIdx' = 1
    /\ ops' = Append(ops, Op("read", fileIdx, 0, TRUE))
    /\ log' = Append(log, "INFO")
    /\ pc' = "st_query"
    /\ UNCHANGED <<argVars, conn, prev_autocommit, fileIdx, file_error>>
    /\ UNCHANGED nonExecVars

\* except IOError: failed_files += 1; log; then the rollback
StFileReadError ==
    /\ pc = "st_file"
    /\ fileIdx <= Len(file_paths)
    /\ ~ReadFile(file_paths[fileIdx]).ok
    /\ result' = Inc(result, "failed_files")
    /\ ops' = Append(ops, Op("read", fileIdx, 0, FALSE))
    /\ log' = log \o << "INFO", "ERROR" >>
    /\ pc' = "st_rollback_io"
    /\ UNCHANGED <<argVars, conn, prev_autocommit, fileIdx, queries, qIdx, file_error>>
    /\ UNCHANGED nonExecVars

\* a file whose statements all ran is logged but not counted
StFileDoneUncounted ==
    /\ pc = "st_query"
    /\ qIdx > Len(queries)
    /\ log' = Append(log, "OK")
    /\ fileIdx' = fileIdx + 1
    /\ pc' = "st_file"
    /\ UNCHANGED <<argVars, conn, prev_autocommit, result, queries, qIdx, file_error, ops>>
    /\ UNCHANGED nonExecVars

\* the statements of the file are exhausted: success_files += 1; log; next file
StFileDone ==
    /\ pc = "st_query"
    /\ qIdx > Len(queries)
    /\ result' = Inc(result, "success_files")
    /\ log' = Append(log, "OK")
    /\ fileIdx' = fileIdx + 1
    /\ pc' = "st_file"
    /\ UNCHANGED <<argVars, conn, prev_autocommit, queries, qIdx, file_error, ops>>
    /\ UNCHANGED nonExecVars

\* cur.execute(query) succeeds: success_count += 1
StQueryOk ==
    /\ pc = "st_query"
    /\ qIdx <= Len(queries)
    /\ conn' = ConnExecute(conn, <<fileIdx, qIdx>>, TRUE)
    /\ ops' = Append(ops, Op("execute", fileIdx, qIdx, TRUE))
    /\ result' = Inc(result, "success_count")
    /\ qIdx' = qIdx + 1
    /\ UNCHANGED <<pc, argVars, prev_autocommit, fileIdx, queries, file_error, log>>
    /\ UNCHANGED nonExecVars

\* a failure that is counted and logged but does not end the loop
StQueryErrorContinue ==
    /\ pc = "st_query"
    /\ qIdx <= Len(queries)
    /\ conn' = ConnExecute(conn, <<fileIdx, qIdx>>, FALSE)
    /\ ops' = Append(ops, Op("execute", fileIdx, qIdx, FALSE))
    /\ result' = Inc(Inc(result, "error_count"), "failed_files")
    /\ log' = Append(log, "ERROR")
    /\ qIdx' = qIdx + 1
    /\ UNCHANGED <<pc, argVars, prev_autocommit, fileIdx, queries, file_error>>
    /\ UNCHANGED nonExecVars

\* cur.execute(query) raises: error_count += 1; failed_files += 1; log; then
\* the rollback
StQueryError ==
    /\ pc = "st_query"
    /\ qIdx <= Len(queries)
    /\ conn' = ConnExecute(conn, <<fileIdx, qIdx>>, FALSE)
    /\ ops' = Append(ops, Op("execute", fileIdx, qIdx, FALSE))
    /\ result' = Inc(Inc(result, "error_count"), "failed_files")
    /\ log' = Append(log, "ERROR")
    /\ pc' = "st_rollback"
    /\ UNCHANGED <<argVars, prev_autocommit, fileIdx, queries, qIdx, file_error>>
    /\ UNCHANGED nonExecVars

\* conn.rollback() after a statement failure; log;
\* failed_files = total_files - success_files; return.  A rollback that
\* raises leaves the handler at once.
StRollback ==
    /\ pc = "st_rollback"
    /\ \E ok \in BOOLEAN :
          /\ conn' = ConnRollback(conn, ok)
          /\ ops' = Append(ops, Op("rollback", fileIdx, 0, ok))
          /\ \/ /\ ok
                /\ log' = Append(log, "ERROR")
                /\ result' = [result EXCEPT
                                 !.failed_files = result.total_files - result.success_files]
                /\ pc' = "st_finally"
             \/ /\ ~ok
                /\ UNCHANGED <<log, result>>
                /\ pc' = "st_finally_exc"
    /\ UNCHANGED <<argVars, prev_autocommit, fileIdx, queries, qIdx, file_error>>
    /\ UNCHANGED nonExecVars

\* a read failure after which the loop is left and the code after it runs
StRollbackIOBreak ==
    /\ pc = "st_rollback_io"
    /\ \E ok \in BOOLEAN :
          /\ conn' = ConnRollback(conn, ok)
          /\ ops' = Append(ops, Op("rollback", fileIdx, 0, ok))
          /\ \/ /\ ok
                /\ log' = Append(log, "ERROR")
                /\ pc' = "st_commit"
             \/ /\ ~ok
                /\ UNCHANGED log
                /\ pc' = "st_finally_exc"
    /\ UNCHANGED <<argVars, prev_autocommit, result, fileIdx, queries, qIdx, file_error>>
    /\ UNCHANGED nonExecVars

\* conn.rollback() after a read failure; log; return
StRollbackIO ==
    /\ pc = "st_rollback_io"
    /\ \E ok \in BOOLEAN :
          /\ conn' = ConnRollback(conn, ok)
          /\ ops' = Append(ops, Op("rollback", fileIdx, 0, ok))
          /\ \/ /\ ok
                /\ log' = Append(log, "ERROR")
                /\ pc' = "st_finally"
             \/ /\ ~ok
                /\ UNCHANGED log
                /\ pc' = "st_finally_exc"
    /\ UNCHANGED <<argVars, prev_autocommit, result, fileIdx, queries, qIdx, file_error>>
    /\ UNCHANGED nonExecVars

\* conn.commit() after the loop; log
StCommit ==
    /\ pc = "st_commit"
    /\ \E ok \in BOOLEAN :
          /\ conn' = ConnCommit(conn, ok)
          /\ ops' = Append(ops, Op("commit", 0, 0, ok))
          /\ \/ /\ ok
                /\ log' = Append(log, "OK")
                /\ pc' = "st_finally"
             \/ /\ ~ok
                /\ UNCHANGED log
                /\ pc' = "st_finally_exc"
    /\ UNCHANGED <<argVars, prev_autocommit, result, fileIdx, queries, qIdx, file_error>>
    /\ UNCHANGED nonExecVars

\* the restore written after the try block instead of in a finally clause
StFinallyOnReturnOnly ==
    /\ pc \in { "st_finally", "st_finally_exc" }
    /\ conn' = IF pc = "st_finally"
               THEN [conn EXCEPT !.autocommit = prev_autocommit] ELSE conn
    /\ pc' = IF pc = "st_finally" THEN "finish" ELSE "raised"
    /\ UNCHANGED <<argVars, prev_autocommit, result, fileIdx, queries, qIdx,
                   file_error, ops, log>>
    /\ UNCHANGED nonExecVars

\* finally: conn.autocommit = prev_autocommit, on a return and on an exception
StFinally ==
    /\ pc \in { "st_finally", "st_finally_exc" }
    /\ conn' = [conn EXCEPT !.autocommit = prev_autocommit]
    /\ pc' = IF pc = "st_finally" THEN "finish" ELSE "raised"
    /\ UNCHANGED <<argVars, prev_autocommit, result, fileIdx, queries, qIdx,
                   file_error, ops, log>>
    /\ UNCHANGED nonExecVars

-----------------------------------------------------------------------------
(* SqlExecutor._execute_per_file *)

\* prev_autocommit = conn.autocommit
PfBegin ==
    /\ pc = "pf_begin"
    /\ prev_autocommit' = conn.autocommit
    /\ fileIdx' = 1
    /\ pc' = "pf_file"
    /\ UNCHANGED <<argVars, conn, result, queries, qIdx, file_error, ops, log>>
    /\ UNCHANGED nonExecVars

\* the for loop over file_paths is exhausted
PfFilesDone ==
    /\ pc = "pf_file"
    /\ fileIdx > Len(file_paths)
    /\ pc' = "pf_restore"
    /\ UNCHANGED <<argVars, conn, prev_autocommit, result, fileIdx, queries, qIdx,
                   file_error, ops, log>>
    /\ UNCHANGED nonExecVars

\* a file read that leaves the connection in the mode it was in
PfFileReadKeepAutocommit ==
    /\ pc = "pf_file"
    /\ fileIdx <= Len(file_paths)
    /\ ReadFile(file_paths[fileIdx]).ok
    /\ queries' = SplitQueries(ReadFile(file_paths[fileIdx]).text)
    /\ result' = [result EXCEPT !.total_queries = @ + Len(queries')]
    /\ file_error' = FALSE
    /\ qIdx' = 1
    /\ ops' = Append(ops, Op("read", fileIdx, 0, TRUE))
    /\ log' = Append(log, "INFO")
    /\ pc' = "pf_query"
    /\ UNCHANGED <<argVars, conn, prev_autocommit, fileIdx>>
    /\ UNCHANGED nonExecVars

\* sql = _read_file(); queries = _split_queries(sql); total_queries += ...;
\* conn.autocommit = False; file_error = False
PfFileRead ==
    /\ pc = "pf_file"
    /\ fileIdx <= Len(file_paths)
    /\ ReadFile(file_paths[fileIdx]).ok
    /\ queries' = SplitQueries(ReadFile(file_paths[fileIdx]).text)
    /\ result' = [result EXCEPT !.total_queries = @ + Len(queries')]
    /\ conn' = [conn EXCEPT !.autocommit = FALSE]
    /\ file_error' = FALSE
    /\ qIdx' = 1
    /\ ops' = Append(ops, Op("read", fileIdx, 0, TRUE))
    /\ log' = Append(log, "INFO")
    /\ pc' = "pf_query"
    /\ UNCHANGED <<argVars, prev_autocommit, fileIdx>>
    /\ UNCHANGED nonExecVars

\* a read failure that is logged but not counted
PfFileReadErrorUncounted ==
    /\ pc = "pf_file"
    /\ fileIdx <= Len(file_paths)
    /\ ~ReadFile(file_paths[fileIdx]).ok
    /\ ops' = Append(ops, Op("read", fileIdx, 0, FALSE))
    /\ log' = log \o << "INFO", "ERROR" >>
    /\ fileIdx' = fileIdx + 1
    /\ UNCHANGED <<pc, argVars, conn, prev_autocommit, result, queries, qIdx, file_error>>
    /\ UNCHANGED nonExecVars

\* except IOError: failed_files += 1; log; next file
PfFileReadError ==
    /\ pc = "pf_file"
    /\ fileIdx <= Len(file_paths)
    /\ ~ReadFile(file_paths[fileIdx]).ok
    /\ result' = Inc(result, "failed_files")
    /\ ops' = Append(ops, Op("read", fileIdx, 0, FALSE))
    /\ log' = log \o << "INFO", "ERROR" >>
    /\ fileIdx' = fileIdx + 1
    /\ UNCHANGED <<pc, argVars, conn, prev_autocommit, queries, qIdx, file_error>>
    /\ UNCHANGED nonExecVars

\* the statements of the file are exhausted
PfQueriesDone ==
    /\ pc = "pf_query"
    /\ qIdx > Len(queries)
    /\ pc' = "pf_end"
    /\ UNCHANGED <<argVars, conn, prev_autocommit, result, fileIdx, queries, qIdx,
                   file_error, ops, log>>
    /\ UNCHANGED nonExecVars

\* cur.execute(query) succeeds: success_count += 1
PfQueryOk ==
    /\ pc = "pf_query"
    /\ qIdx <= Len(queries)
    /\ conn' = ConnExecute(conn, <<fileIdx, qIdx>>, TRUE)
    /\ ops' = Append(ops, Op("execute", fileIdx, qIdx, TRUE))
    /\ result' = Inc(result, "success_count")
    /\ qIdx' = qIdx + 1
    /\ UNCHANGED <<pc, argVars, prev_autocommit, fileIdx, queries, file_error, log>>
    /\ UNCHANGED nonExecVars

\* a failure that is counted and logged but does not end the loop of the file
PfQueryErrorContinue ==
    /\ pc = "pf_query"
    /\ qIdx <= Len(queries)
    /\ conn' = ConnExecute(conn, <<fileIdx, qIdx>>, FALSE)
    /\ ops' = Append(ops, Op("execute", fileIdx, qIdx, FALSE))
    /\ result' = Inc(result, "error_count")
    /\ file_error' = TRUE
    /\ log' = Append(log, "ERROR")
    /\ qIdx' = qIdx + 1
    /\ UNCHANGED <<pc, argVars, prev_autocommit, fileIdx, queries>>
    /\ UNCHANGED nonExecVars

\* cur.execute(query) raises: error_count += 1; file_error = True; log; then
\* the rollback
PfQueryError ==
    /\ pc = "pf_query"
    /\ qIdx <= Len(queries)
    /\ conn' = ConnExecute(conn, <<fileIdx, qIdx>>, FALSE)
    /\ ops' = Append(ops, Op("execute", fileIdx, qIdx, FALSE))
    /\ result' = Inc(result, "error_count")
    /\ file_error' = TRUE
    /\ log' = Append(log, "ERROR")
    /\ pc' = "pf_rollback"
    /\ UNCHANGED <<argVars, prev_autocommit, fileIdx, queries, qIdx>>
    /\ UNCHANGED nonExecVars

\* conn.rollback(); log; break.  A rollback that raises is caught by no
\* handler of the function (it is no IOError) and leaves the call.
PfRollback ==
    /\ pc = "pf_rollback"
    /\ \E ok \in BOOLEAN :
          /\ conn' = ConnRollback(conn, ok)
          /\ ops' = Append(ops, Op("rollback", fileIdx, 0, ok))
          /\ \/ /\ ok
                /\ log' = Append(log, "WARN")
                /\ pc' = "pf_end"
             \/ /\ ~ok
                /\ UNCHANGED log
                /\ pc' = "raised"
    /\ UNCHANGED <<argVars, prev_autocommit, result, fileIdx, queries, qIdx, file_error>>
    /\ UNCHANGED nonExecVars

\* if not file_error: conn.commit(); success_files += 1; log.  A commit that
\* raises leaves the call.
PfCommit ==
    /\ pc = "pf_end"
    /\ ~file_error
    /\ \E ok \in BOOLEAN :
          /\ conn' = ConnCommit(conn, ok)
          /\ ops' = Append(ops, Op("commit", fileIdx, 0, ok))
          /\ \/ /\ ok
                /\ result' = Inc(result, "success_files")
                /\ log' = Append(log, "OK")
                /\ fileIdx' = fileIdx + 1
                /\ pc' = "pf_file"
             \/ /\ ~ok
                /\ UNCHANGED <<result, log, fileIdx>>
                /\ pc' = "raised"
    /\ UNCHANGED <<argVars, prev_autocommit, queries, qIdx, file_error>>
    /\ UNCHANGED nonExecVars

\* else: failed_files += 1
PfFileFailed ==
    /\ pc = "pf_end"
    /\ file_error
    /\ result' = Inc(result, "failed_files")
    /\ fileIdx' = fileIdx + 1
    /\ pc' = "pf_file"
    /\ UNCHANGED <<argVars, conn, prev_autocommit, queries, qIdx, file_error, ops, log>>
    /\ UNCHANGED nonExecVars

\* after the loop: conn.autocommit = prev_autocommit
PfRestore ==
    /\ pc = "pf_restore"
    /\ conn' = [conn EXCEPT !.autocommit = prev_autocommit]
    /\ pc' = "finish"
    /\ UNCHANGED <<argVars, prev_autocommit, result, fileIdx, queries, qIdx,
                   file_error, ops, log>>
    /\ UNCHANGED nonExecVars

NextExec ==
    \/ ExecuteFiles
    \/ StBegin \/ StFilesDone \/ StFileRead \/ StFileReadError
    \/ StFileDone \/ StQueryOk \/ StQueryError
    \/ StRollback \/ StRollbackIO \/ StCommit \/ StFinally
    \/ PfBegin \/ PfFilesDone \/ PfFileRead \/ PfFileReadError
    \/ PfQueriesDone \/ PfQueryOk \/ PfQueryError
    \/ PfRollback \/ PfCommit \/ PfFileFailed \/ PfRestore
    \/ Finish

SpecExec == InitExec /\ [][NextExec]_vars

-----------------------------------------------------------------------------
(* Claims about the splitter *)

\* A function definition: a first line that opens a $$ body, body lines that
\* hold no $$ (or are comments or blank), a last line that closes the body and
\* ends in a terminator.
IsFunctionDefinition(ls) ==
    /\ Len(ls) >= 2
    /\ ~CommentOrBlank(ls[1])
    /\ CountDollar(ls[1]) % 2 = 1
    /\ ~CommentOrBlank(ls[Len(ls)])
    /\ CountDollar(ls[Len(ls)]) % 2 = 1
    /\ EndsWithSemicolon(Strip(ls[Len(ls)]))
    /\ \A k \in 2..(Len(ls) - 1) : CommentOrBlank(ls[k]) \/ CountDollar(ls[k]) = 0

\* C10: no statement is closed at a line after which the procedural-body flag
\* is true, and a function definition whose $$ body opens and closes on
\* different lines is returned as exactly one statement, whatever terminators
\* its body lines end in.
C10_NoBoundaryInsideBody ==
    /\ \A k \in closedAt : flagAt[k] = FALSE
    /\ (splitPc = "done" /\ IsFunctionDefinition(lines))
          => split.queries = << Strip(sql) >>

C10_Witness ==
    /\ splitPc = "done"
    /\ IsFunctionDefinition(lines)
    /\ \E k \in 2..(Len(lines) - 1) :
          /\ ~CommentOrBlank(lines[k])
          /\ EndsWithSemicolon(Strip(lines[k]))
          /\ flagAt[k]
    /\ Len(split.queries) = 1

\* the indexes of the lines of ls that are neither blank nor comments
CodeLineIdx(ls) == { k \in 1..Len(ls) : ~CommentOrBlank(ls[k]) }

\* the lines of ls that are neither blank nor comments, in order
RECURSIVE CodeLines(_)
CodeLines(ls) ==
    IF ls = <<>> THEN <<>>
    ELSE IF CommentOrBlank(Head(ls)) THEN CodeLines(Tail(ls))
    ELSE <<Head(ls)>> \o CodeLines(Tail(ls))

\* no $$ on a line that is not a comment
NoDollar(ls) == \A k \in CodeLineIdx(ls) : CountDollar(ls[k]) = 0

\* the lines that are not comments and end with a terminator
TerminatedLines(ls) == { k \in CodeLineIdx(ls) : EndsWithSemicolon(Strip(ls[k])) }

\* a line that is not a comment follows the last terminated line
ContentRemains(ls) ==
    \E k \in CodeLineIdx(ls) : \A t \in TerminatedLines(ls) : t < k

\* the j-th smallest element of a set of numbers
NthOf(S, j) == CHOOSE x \in S : Cardinality({ y \in S : y < x }) = j - 1

EndsWith(s, suffix) ==
    /\ Len(s) >= Len(suffix)
    /\ SubSeq(s, Len(s) - Len(suffix) + 1, Len(s)) = suffix

RECURSIVE DollarTotal(_)
DollarTotal(ls) ==
    IF ls = <<>> THEN 0
    ELSE (IF CommentOrBlank(Head(ls)) THEN 0 ELSE CountDollar(Head(ls)))
         + DollarTotal(Tail(ls))

Balanced(ls) == DollarTotal(ls) % 2 = 0

\* the non-blank, non-comment lines of the statements qs, in order, each with
\* whether it is the first and whether it is the last line of its statement
RECURSIVE StatementLinesFrom(_, _)
StatementLinesFrom(ls, k) ==
    IF k > Len(ls) THEN <<>>
    ELSE (IF CommentOrBlank(ls[k]) THEN <<>>
          ELSE << [line |-> ls[k], first |-> k = 1, last |-> k = Len(ls)] >>)
         \o StatementLinesFrom(ls, k + 1)

RECURSIVE StatementLines(_)
StatementLines(qs) ==
    IF qs = <<>> THEN <<>>
    ELSE StatementLinesFrom(SplitNL(Head(qs)), 1) \o StatementLines(Tail(qs))

\* what trimming a statement does to one of its lines
TrimEdge(l, first, last) ==
    LET a == IF first THEN LStrip(l) ELSE l
    IN  IF last THEN RStrip(a) ELSE a

\* C12 as stated: for a text with balanced $$ blocks, the non-blank,
\* non-comment lines of the statements returned, concatenated in order, are
\* exactly those of the input: none lost, duplicated or altered.
C12_LinesReconstructedExactly ==
    (splitPc = "done" /\ Balanced(lines)) =>
        LET got == StatementLines(split.queries) IN
        /\ Len(got) = Len(CodeLines(lines))
        /\ \A i \in 1..Len(got) : got[i].line = CodeLines(lines)[i]

\* C12 amended: the same, except that a line that starts a statement has lost
\* its leading blanks and a line that ends a statement its trailing blanks
\* (each statement is trimmed); every other line is unaltered.
C12_LinesReconstructedUpToTrim ==
    (splitPc = "done" /\ Balanced(lines)) =>
        LET got == StatementLines(split.queries) IN
        /\ Len(got) = Len(CodeLines(lines))
        /\ \A i \in 1..Len(got) :
              got[i].line = TrimEdge(CodeLines(lines)[i], got[i].first, got[i].last)

C12_Witness ==
    /\ splitPc = "done"
    /\ Balanced(lines)
    /\ ~NoDollar(lines)
    /\ Len(split.queries) = 2
    /\ Len(CodeLines(lines)) = 3
    /\ \E i \in 1..3 : StatementLines(split.queries)[i].line # CodeLines(lines)[i]

\* C13: at every point of the run and on return, no statement of the result
\* is empty or made of blank and comment lines only, whether it was closed at
\* a terminator or flushed after the last line.
C13_NoEmptyOrCommentOnlyStatement ==
    \A j \in 1..Len(split.queries) :
        /\ split.queries[j] # <<>>
        /\ CodeLines(SplitNL(split.queries[j])) # <<>>

C13_Witness ==
    /\ splitPc = "done"
    /\ closedAt # {}
    /\ split.current # <<>>
    /\ \A k \in 1..Len(split.current) : CommentOrBlank(split.current[k])
    /\ \E k \in 1..Len(split.current) : StartsWithComment(split.current[k])
    /\ Len(split.queries) = 1


-----------------------------------------------------------------------------
(* Claims about execute_files *)

OpIdx == 1..Len(ops)

Commits == { i \in OpIdx : ops[i].op = "commit" }

Rollbacks == { i \in OpIdx : ops[i].op = "rollback" }

FailedExecutes == { i \in OpIdx : ops[i].op = "execute" /\ ~ops[i].ok }

FailedReads == { i \in OpIdx : ops[i].op = "read" /\ ~ops[i].ok }

\* the number of statements of the f-th file of the list
NumQueries(f) == Len(SplitQueries(ReadFile(file_paths[f]).text))

\* the number of statements of the files before the f-th
RECURSIVE StatementsBefore(_)
StatementsBefore(f) ==
    IF f <= 1 THEN 0 ELSE StatementsBefore(f - 1) + NumQueries(f - 1)

\* every file was read and every statement of every file succeeded
AllSucceeded ==
    \A f \in 1..Len(file_paths) :
        /\ \E i \in OpIdx : ops[i] = Op("read", f, 0, TRUE)
        /\ \A q \in 1..NumQueries(f) : \E i \in OpIdx : ops[i] = Op("execute", f, q, TRUE)

\* C1: in single-transaction mode, once a statement has failed no commit is
\* issued in the call, the only operation that follows the failing statement is
\* one rollback (no statement of that file or of a later file, no file read),
\* and the rollback has been issued when the call ends.
C1_SingleFailureRollsBackAndStops ==
    single_transaction =>
        \A i \in FailedExecutes :
            /\ Commits = {}
            /\ \A j \in OpIdx : j > i => (j = i + 1 /\ ops[j].op = "rollback")
            /\ pc \in { "st_finally", "st_finally_exc", "finish", "done", "raised" }
                  => i + 1 \in Rollbacks

C1_Witness ==
    /\ single_transaction
    /\ pc = "done"
    /\ \E i \in FailedExecutes :
          /\ ops[i].f >= 2
          /\ ops[i].f < Len(file_paths)
          /\ ops[i].q < Len(queries)
          /\ NumQueries(ops[i].f + 1) > 0

\* C2: in single-transaction mode at most one commit or rollback is issued in
\* a call (so never a commit after a rollback), and when the call ends exactly
\* one commit has been issued if and only if every file was read and every
\* statement of every file succeeded.
C2_SingleCommitIffAllSucceeded ==
    single_transaction =>
        /\ Cardinality(Commits \cup Rollbacks) <= 1
        /\ \A i \in Rollbacks : \A j \in Commits : j < i
        /\ Finished => (Cardinality(Commits) = 1 <=> AllSucceeded)

C2_Witness ==
    /\ single_transaction
    /\ pc = "done"
    /\ Len(file_paths) >= 2
    /\ result.success_count >= 2
    /\ Cardinality(Commits) = 1
    /\ Rollbacks = {}

\* C3: in single-transaction mode, when the call ends after the k-th statement
\* (counted across the files in order) was the first to fail, successCount is
\* k-1 and errorCount is 1.
C3_SingleCountsAtFirstFailure ==
    (single_transaction /\ Finished) =>
        \A i \in FailedExecutes :
            (\A j \in FailedExecutes : i <= j) =>
                /\ result.success_count = StatementsBefore(ops[i].f) + ops[i].q - 1
                /\ result.error_count = 1

C3_Witness ==
    /\ single_transaction
    /\ pc = "done"
    /\ \E i \in FailedExecutes :
          /\ ops[i].f >= 2
          /\ ops[i].q = 2
          /\ StatementsBefore(ops[i].f) >= 1
          /\ result.success_count = StatementsBefore(ops[i].f) + 1

\* C4: in single-transaction mode a file read failure is handled like a
\* statement failure: a rollback follows it, nothing is read, executed or
\* committed after it, and when the call returns failedFiles is
\* totalFiles - successFiles.
C4_SingleReadFailureLikeStatementFailure ==
    (single_transaction /\ pc = "done") =>
        \A i \in FailedReads :
            /\ Commits = {}
            /\ i + 1 \in Rollbacks
            /\ \A j \in OpIdx : j > i => j = i + 1
            /\ result.failed_files = result.total_files - result.success_files

\* C5: in per-file mode every file of the list has been attempted, in list
\* order, when the call ends, whatever happened to the earlier files.
C5_PerFileEveryFileAttempted ==
    (~single_transaction /\ Finished) =>
        /\ \A f \in 1..Len(file_paths) : \E i \in OpIdx : ops[i].op = "read" /\ ops[i].f = f
        /\ \A i, j \in OpIdx : i < j => ops[i].f <= ops[j].f

\* the f-th file was read and each of its statements succeeded
FileSucceeded(f) ==
    /\ \E i \in OpIdx : ops[i] = Op("read", f, 0, TRUE)
    /\ \A q \in 1..NumQueries(f) : \E i \in OpIdx : ops[i] = Op("execute", f, q, TRUE)

\* C6: in per-file mode a statement failure is followed by a rollback and by
\* no further statement of that file, and no statement of that file is
\* committed; the statements of a file that was committed stay committed
\* through the later rollbacks; a file whose statements all succeeded is
\* committed exactly once, before anything of the next file is read.
C6_PerFileRollbackIsPerFile ==
    (~single_transaction /\ pc # "idle") =>
        /\ \A i \in FailedExecutes :
              /\ \A j \in OpIdx : j > i => ~(ops[j].op = "execute" /\ ops[j].f = ops[i].f)
              /\ i < Len(ops) => (ops[i + 1].op = "rollback" /\ ops[i + 1].f = ops[i].f)
              /\ \A q \in 1..NumQueries(ops[i].f) : <<ops[i].f, q>> \notin conn.committed
        /\ \A i \in Commits :
              ops[i].ok =>
                  \A q \in 1..NumQueries(ops[i].f) : <<ops[i].f, q>> \in conn.committed
        /\ \A f \in 1..Len(file_paths) :
              /\ Cardinality({ i \in Commits : ops[i].f = f }) <= 1
              /\ (FileSucceeded(f) /\ (fileIdx > f \/ pc = "raised")) =>
                    \E i \in Commits :
                        /\ ops[i].f = f
                        /\ \A j \in OpIdx : ops[j].f > f => i < j

C6_Witness ==
    /\ ~single_transaction
    /\ pc = "done"
    /\ \E i \in Commits, j \in FailedExecutes :
          /\ ops[i].ok
          /\ i < j
          /\ NumQueries(ops[i].f) >= 1
          /\ ops[j].q = 2
          /\ ops[j].f < Len(file_paths)
          /\ FileSucceeded(ops[j].f + 1)

\* C7: in per-file mode, when the call returns, successFiles is the number of
\* files committed, failedFiles is the number of files with a read failure or
\* a statement failure, and the two add up to totalFiles.
C7_PerFileCountersOnReturn ==
    (~single_transaction /\ pc = "done") =>
        /\ result.success_files = Cardinality({ i \in Commits : ops[i].ok })
        /\ result.failed_files =
              Cardinality({ f \in 1..Len(file_paths) :
                              \E i \in FailedReads \cup FailedExecutes : ops[i].f = f })
        /\ result.success_files + result.failed_files = result.total_files

C7_Witness ==
    /\ ~single_transaction
    /\ pc = "done"
    /\ result.success_files >= 1
    /\ FailedReads # {}
    /\ FailedExecutes # {}
    /\ result.failed_files = 2

\* C8: in single-transaction mode the autocommit setting of the connection
\* when the call ends, by a return or by an exception, is the one it had when
\* the call started.
C8_SingleAutocommitRestored ==
    (single_transaction /\ Finished) => conn.autocommit = autocommit0

C8_Witness ==
    /\ single_transaction
    /\ pc = "raised"
    /\ autocommit0 = TRUE
    /\ conn.autocommit = TRUE
    /\ \E i \in Rollbacks : ~ops[i].ok

\* C9: in per-file mode the autocommit setting of the connection when the
\* call ends, by a return or by an exception, is the one it had when the call
\* started.
C9_PerFileAutocommitRestored ==
    (~single_transaction /\ Finished) => conn.autocommit = autocommit0


-----------------------------------------------------------------------------
(* VerificationService.verify *)

\* tables are named by numbers, so that ORDER BY tablename is the numeric order
TableNames == 1..MaxTables

\* (sequences, indexes, views) of the schemas verified
CatalogCounts == { <<0, 0, 0>>, <<1, 2, 3>>, <<2, 1, 0>> }

\* rows of the tables of T (0 for the names that are not tables of the schema)
RowsOf(T) == { f \in [TableNames -> 0..MaxRows] : \A t \in TableNames \ T : f[t] = 0 }

Databases ==
    UNION { { [tables |-> T, rows |-> r, sequences |-> c[1], indexes |-> c[2], views |-> c[3]] :
                r \in RowsOf(T), c \in CatalogCounts } : T \in SUBSET TableNames }

\* ORDER BY tablename
RECURSIVE SortedSeq(_)
SortedSeq(S) ==
    IF S = {} THEN <<>>
    ELSE LET m == CHOOSE x \in S : \A y \in S : x <= y
         IN  <<m>> \o SortedSeq(S \ {m})

\* rows[table] = count
SetRow(r, table, count) ==
    [t \in (DOMAIN r) \cup {table} |-> IF t = table THEN count ELSE r[t]]

VOp(step, table, ok) == [step |-> step, table |-> table, ok |-> ok]

InitVerify ==
    /\ vpc = "idle"
    /\ db \in Databases
    /\ vresult = VResultInit
    /\ tables = <<>>
    /\ rows = <<>>
    /\ tIdx = 0
    /\ vexc = ""
    /\ vops = <<>>
    /\ vlog = <<>>
    /\ SplitIdle
    /\ ExecIdle
    /\ DumpIdle
    /\ FormatIdle
    /\ UiIdle
    /\ ServicesIdle

\* result = VerificationResult(); log("INFO", ...); try:
Verify ==
    /\ vpc = "idle"
    /\ vresult' = VResultInit
    /\ vlog' = Append(vlog, "INFO")
    /\ vpc' = "count_tables"
    /\ UNCHANGED <<db, tables, rows, tIdx, vexc, vops>>
    /\ UNCHANGED nonVerifyVars

\* a table count made before the try block: its exception leaves verify
VCountTablesOutsideTry ==
    /\ vpc = "count_tables"
    /\ \E ok \in BOOLEAN :
          /\ vops' = Append(vops, VOp("count_tables", 0, ok))
          /\ \/ /\ ok
                /\ vresult' = [vresult EXCEPT !.table_count = Cardinality(db.tables)]
                /\ vlog' = Append(vlog, "INFO")
                /\ vpc' = "list_tables"
                /\ UNCHANGED vexc
             \/ /\ ~ok
                /\ vexc' = "count_tables"
                /\ vpc' = "raised"
                /\ UNCHANGED <<vresult, vlog>>
    /\ UNCHANGED <<db, tables, rows, tIdx>>
    /\ UNCHANGED nonVerifyVars

\* result.table_count = self._count_tables(schema); log
VCountTables ==
    /\ vpc = "count_tables"
    /\ \E ok \in BOOLEAN :
          /\ vops' = Append(vops, VOp("count_tables", 0, ok))
          /\ \/ /\ ok
                /\ vresult' = [vresult EXCEPT !.table_count = Cardinality(db.tables)]
                /\ vlog' = Append(vlog, "INFO")
                /\ vpc' = "list_tables"
                /\ UNCHANGED vexc
             \/ /\ ~ok
                /\ vexc' = "count_tables"
                /\ vpc' = "except"
                /\ UNCHANGED <<vresult, vlog>>
    /\ UNCHANGED <<db, tables, rows, tIdx>>
    /\ UNCHANGED nonVerifyVars

\* _count_rows_per_table: rows = {}; the listing query; tables = [...]
VListTables ==
    /\ vpc = "list_tables"
    /\ \E ok \in BOOLEAN :
          /\ vops' = Append(vops, VOp("list_tables", 0, ok))
          /\ \/ /\ ok
                /\ rows' = <<>>
                /\ tables' = SortedSeq(db.tables)
                /\ tIdx' = 1
                /\ vpc' = "count_rows"
                /\ UNCHANGED vexc
             \/ /\ ~ok
                /\ vexc' = "list_tables"
                /\ vpc' = "except"
                /\ UNCHANGED <<rows, tables, tIdx>>
    /\ UNCHANGED <<db, vresult, vlog>>
    /\ UNCHANGED nonVerifyVars

\* SELECT count(*) of one table succeeds: rows[table] = count; log
VCountRowsOk ==
    /\ vpc = "count_rows"
    /\ tIdx <= Len(tables)
    /\ vops' = Append(vops, VOp("count_rows", tables[tIdx], TRUE))
    /\ rows' = SetRow(rows, tables[tIdx], db.rows[tables[tIdx]])
    /\ vlog' = Append(vlog, "INFO")
    /\ tIdx' = tIdx + 1
    /\ UNCHANGED <<vpc, db, vresult, tables, vexc>>
    /\ UNCHANGED nonVerifyVars

\* a row count without its own try block: the failure ends the whole sequence
VCountRowsErrorAborts ==
    /\ vpc = "count_rows"
    /\ tIdx <= Len(tables)
    /\ vops' = Append(vops, VOp("count_rows", tables[tIdx], FALSE))
    /\ vexc' = "count_rows"
    /\ vpc' = "except"
    /\ UNCHANGED <<db, vresult, tables, rows, tIdx, vlog>>
    /\ UNCHANGED nonVerifyVars

\* a row-count failure that stores the sentinel but logs nothing
VCountRowsErrorSilent ==
    /\ vpc = "count_rows"
    /\ tIdx <= Len(tables)
    /\ vops' = Append(vops, VOp("count_rows", tables[tIdx], FALSE))
    /\ rows' = SetRow(rows, tables[tIdx], -1)
    /\ tIdx' = tIdx + 1
    /\ UNCHANGED <<vpc, db, vresult, tables, vexc, vlog>>
    /\ UNCHANGED nonVerifyVars

\* a row-count failure that also adds its message to result.errors
VCountRowsErrorRecorded ==
    /\ vpc = "count_rows"
    /\ tIdx <= Len(tables)
    /\ vops' = Append(vops, VOp("count_rows", tables[tIdx], FALSE))
    /\ rows' = SetRow(rows, tables[tIdx], -1)
    /\ vresult' = [vresult EXCEPT !.errors = Append(@, "count_rows")]
    /\ vlog' = Append(vlog, "ERROR")
    /\ tIdx' = tIdx + 1
    /\ UNCHANGED <<vpc, db, tables, vexc>>
    /\ UNCHANGED nonVerifyVars

\* it raises: except Exception: rows[table] = -1; log; next table
VCountRowsError ==
    /\ vpc = "count_rows"
    /\ tIdx <= Len(tables)
    /\ vops' = Append(vops, VOp("count_rows", tables[tIdx], FALSE))
    /\ rows' = SetRow(rows, tables[tIdx], -1)
    /\ vlog' = Append(vlog, "ERROR")
    /\ tIdx' = tIdx + 1
    /\ UNCHANGED <<vpc, db, vresult, tables, vexc>>
    /\ UNCHANGED nonVerifyVars

\* the for loop is exhausted: return rows; result.table_rows = ...
VCountRowsDone ==
    /\ vpc = "count_rows"
    /\ tIdx > Len(tables)
    /\ vresult' = [vresult EXCEPT !.table_rows = rows]
    /\ vpc' = "count_sequences"
    /\ UNCHANGED <<db, tables, rows, tIdx, vexc, vops, vlog>>
    /\ UNCHANGED nonVerifyVars

\* result.sequence_count = self._count_sequences(schema); log
VCountSequences ==
    /\ vpc = "count_sequences"
    /\ \E ok \in BOOLEAN :
          /\ vops' = Append(vops, VOp("count_sequences", 0, ok))
          /\ \/ /\ ok
                /\ vresult' = [vresult EXCEPT !.sequence_count = db.sequences]
                /\ vlog' = Append(vlog, "INFO")
                /\ vpc' = "count_indexes"
                /\ UNCHANGED vexc
             \/ /\ ~ok
                /\ vexc' = "count_sequences"
                /\ vpc' = "except"
                /\ UNCHANGED <<vresult, vlog>>
    /\ UNCHANGED <<db, tables, rows, tIdx>>
    /\ UNCHANGED nonVerifyVars

\* result.index_count = self._count_indexes(schema); log
VCountIndexes ==
    /\ vpc = "count_indexes"
    /\ \E ok \in BOOLEAN :
          /\ vops' = Append(vops, VOp("count_indexes", 0, ok))
          /\ \/ /\ ok
                /\ vresult' = [vresult EXCEPT !.index_count = db.indexes]
                /\ vlog' = Append(vlog, "INFO")
                /\ vpc' = "count_views"
                /\ UNCHANGED vexc
             \/ /\ ~ok
                /\ vexc' = "count_indexes"
                /\ vpc' = "except"
                /\ UNCHANGED <<vresult, vlog>>
    /\ UNCHANGED <<db, tables, rows, tIdx>>
    /\ UNCHANGED nonVerifyVars

\* result.view_count = self._count_views(schema); log; log("OK", ...)
VCountViews ==
    /\ vpc = "count_views"
    /\ \E ok \in BOOLEAN :
          /\ vops' = Append(vops, VOp("count_views", 0, ok))
          /\ \/ /\ ok
                /\ vresult' = [vresult EXCEPT !.view_count = db.views]
                /\ vlog' = vlog \o << "INFO", "OK" >>
                /\ vpc' = "return"
                /\ UNCHANGED vexc
             \/ /\ ~ok
                /\ vexc' = "count_views"
                /\ vpc' = "except"
                /\ UNCHANGED <<vresult, vlog>>
    /\ UNCHANGED <<db, tables, rows, tIdx>>
    /\ UNCHANGED nonVerifyVars

\* except Exception as e: result.errors.append(str(e)); log("ERROR", ...)
VExcept ==
    /\ vpc = "except"
    /\ vresult' = [vresult EXCEPT !.errors = Append(@, vexc)]
    /\ vlog' = Append(vlog, "ERROR")
    /\ vexc' = ""
    /\ vpc' = "return"
    /\ UNCHANGED <<db, tables, rows, tIdx, vops>>
    /\ UNCHANGED nonVerifyVars

\* return result
VReturn ==
    /\ vpc = "return"
    /\ vpc' = "done"
    /\ UNCHANGED <<db, vresult, tables, rows, tIdx, vexc, vops, vlog>>
    /\ UNCHANGED nonVerifyVars

NextVerify ==
    \/ Verify \/ VCountTables \/ VListTables
    \/ VCountRowsOk \/ VCountRowsError \/ VCountRowsDone
    \/ VCountSequences \/ VCountIndexes \/ VCountViews
    \/ VExcept \/ VReturn

SpecVerify == InitVerify /\ [][NextVerify]_vars

-----------------------------------------------------------------------------
(* Claims about VerificationService.verify *)

\* the catalog query of a step was made and returned
StepOk(step) == \E k \in 1..Len(vops) : vops[k] = VOp(step, 0, TRUE)

StepFailed(step) == \E k \in 1..Len(vops) : vops[k] = VOp(step, 0, FALSE)

StepAttempted(step) == StepOk(step) \/ StepFailed(step)

\* the count(*) of one table raised
RowCountFailed(t) == \E k \in 1..Len(vops) : vops[k] = VOp("count_rows", t, FALSE)

\* the rows the per-table loop is meant to deliver
ExpectedRows == [t \in db.tables |-> IF RowCountFailed(t) THEN -1 ELSE db.rows[t]]

\* C14: when the row count of a table fails, that table is recorded with -1,
\* every other table of the schema is recorded with its own count, no error
\* is raised out of the loop, and verify goes on to the sequence count (and
\* from there to the index and view counts as each one succeeds).
C14_RowCountFailureIsLocal ==
    /\ vexc # "count_rows"
    /\ (vpc = "done" /\ StepOk("list_tables")) =>
          /\ DOMAIN vresult.table_rows = db.tables
          /\ \A t \in db.tables :
                vresult.table_rows[t] = IF RowCountFailed(t) THEN -1 ELSE db.rows[t]
          /\ StepAttempted("count_sequences")
          /\ StepOk("count_sequences") => StepAttempted("count_indexes")
          /\ StepOk("count_indexes") => StepAttempted("count_views")

\* one table failed, a later one was counted, and all three catalog counts ran
C14_Witness ==
    /\ vpc = "done"
    /\ RowCountFailed(1)
    /\ 2 \in db.tables /\ db.rows[2] = 1 /\ vresult.table_rows[2] = 1
    /\ vresult.table_rows[1] = -1
    /\ StepOk("count_sequences") /\ StepOk("count_indexes") /\ StepOk("count_views")
    /\ vresult.view_count = 3
    /\ vresult.errors = <<>>

VSteps == { "count_tables", "list_tables", "count_sequences", "count_indexes", "count_views" }

\* C15: no exception of a step leaves verify; the failing step's message is
\* the one entry of errors, the steps before it hold the values they read,
\* the failing step and the steps after it hold their initial values, and
\* nothing is attempted after the failure.
C15_VerifyNeverRaises ==
    /\ vpc # "raised"
    /\ vpc = "done" =>
          /\ vresult.table_count =
                IF StepOk("count_tables") THEN Cardinality(db.tables) ELSE 0
          /\ vresult.table_rows =
                IF StepOk("list_tables") THEN ExpectedRows ELSE VResultInit.table_rows
          /\ vresult.sequence_count =
                IF StepOk("count_sequences") THEN db.sequences ELSE 0
          /\ vresult.index_count =
                IF StepOk("count_indexes") THEN db.indexes ELSE 0
          /\ vresult.view_count =
                IF StepOk("count_views") THEN db.views ELSE 0
          /\ \A s \in VSteps : StepFailed(s) =>
                /\ vresult.errors = <<s>>
                /\ vops[Len(vops)] = VOp(s, 0, FALSE)
          /\ (\A s \in VSteps : ~StepFailed(s)) =>
                /\ vresult.errors = <<>>
                /\ \A s \in VSteps : StepOk(s)

\* the index count failed after the table, row and sequence counts were read
C15_Witness ==
    /\ vpc = "done"
    /\ StepFailed("count_indexes")
    /\ vresult.errors = << "count_indexes" >>
    /\ vresult.table_count = 2
    /\ vresult.sequence_count = 1
    /\ db.indexes = 2 /\ vresult.index_count = 0
    /\ db.views = 3 /\ vresult.view_count = 0

-----------------------------------------------------------------------------
(* SchemaDumper: names, index definitions and the catalog *)

Lowers == << "a", "b", "c", "d", "e", "f", "g", "h", "i", "j", "k", "l", "m",
             "n", "o", "p", "q", "r", "s", "t", "u", "v", "w", "x", "y", "z" >>

Uppers == << "A", "B", "C", "D", "E", "F", "G", "H", "I", "J", "K", "L", "M",
             "N", "O", "P", "Q", "R", "S", "T", "U", "V", "W", "X", "Y", "Z" >>

UpperChar(c) ==
    IF \E k \in 1..Len(Lowers) : Lowers[k] = c
    THEN Uppers[CHOOSE k \in 1..Len(Lowers) : Lowers[k] = c]
    ELSE c

\* str.upper()
Upper(s) == [k \in 1..Len(s) |-> UpperChar(s[k])]

\* p in s
Contains(s, p) ==
    \E k \in 0..(Len(s) - Len(p)) : SubSeq(s, k + 1, k + Len(p)) = p

\* x in list
InList(x, list) == \E k \in 1..Len(list) : list[k] = x

\* f'"{name}"'
Quoted(name) == << "\"" >> \o name \o << "\"" >>

Public == << "p", "u", "b", "l", "i", "c" >>

\* a second user schema; _get_user_schemas lists it after public
Sales == << "s", "2" >>

\* table names in the order of ORDER BY tablename: one upper-case name, one
\* name that starts with it, one lower-case name
TableT == << "T" >>

TableTx == << "T", "x" >>

TableA == << "a" >>

TableOrder == << TableT, TableTx, TableA >>

\* the ways an index definition can name its table
RefForms == { "plain", "quoted", "qualified", "qualified_quoted" }

TableRef(form, schema, t) ==
    CASE form = "plain"            -> t
      [] form = "quoted"           -> Quoted(t)
      [] form = "qualified"        -> schema \o << "." >> \o t
      [] form = "qualified_quoted" -> Quoted(schema) \o << "." >> \o Quoted(t)

IndexName(t) == << "i", "_" >> \o t

FkName(t) == << "f", "k", "_" >> \o t

\* pg_indexes.indexdef: CREATE [UNIQUE] INDEX name ON table USING btree (c)
IndexDef(unique, name, ref) ==
    << "C", "R", "E", "A", "T", "E", " " >>
    \o (IF unique THEN << "U", "N", "I", "Q", "U", "E", " " >> ELSE << >>)
    \o << "I", "N", "D", "E", "X", " " >> \o name
    \o << " ", "O", "N", " " >> \o ref
    \o << " ", "U", "S", "I", "N", "G", " ", "b", "t", "r", "e", "e", " ", "(", "c", ")" >>

\* what a table of the catalog carries: a foreign key or none, and an index
\* that is plain, unique without a constraint, or the index of its primary key
IndexKinds == { "none", "plain", "unique", "pkey" }

TableProfiles == [fk : BOOLEAN, index : IndexKinds]

\* the subsequence of seq whose elements satisfy Keep
RECURSIVE SelectFrom(_, _)
SelectFrom(seq, keep) ==
    IF seq = << >> THEN << >>
    ELSE (IF Head(seq) \in keep THEN << Head(seq) >> ELSE << >>)
         \o SelectFrom(Tail(seq), keep)

\* rows of pg_constraint with contype = 'f', ORDER BY relname, conname
FkRows(ts, profile) ==
    LET owners == SelectFrom(ts, { t \in DOMAIN profile : profile[t].fk })
    IN  [k \in 1..Len(owners) |-> [conname |-> FkName(owners[k]), table_name |-> owners[k]]]

\* rows of pg_indexes, ORDER BY tablename, indexname
IndexRows(schema, ts, profile, form) ==
    LET indexed == SelectFrom(ts, { t \in DOMAIN profile : profile[t].index # "none" })
    IN  [k \in 1..Len(indexed) |->
            [indexname |-> IndexName(indexed[k]),
             tablename |-> indexed[k],
             indexdef  |-> IndexDef(profile[indexed[k]].index # "plain",
                                    IndexName(indexed[k]),
                                    TableRef(form, schema, indexed[k]))]]

\* connames of pg_constraint with contype IN ('p', 'u')
KeyConstraints(profile) ==
    { IndexName(t) : t \in { u \in DOMAIN profile : profile[u].index = "pkey" } }

\* one schema of the catalog
SchemaCatalog(schema, ts, profile, form, objects, nrows) ==
    [tables      |-> ts,
     fks         |-> FkRows(ts, profile),
     pg_indexes  |-> IndexRows(schema, ts, profile, form),
     constraints |-> KeyConstraints(profile),
     enums       |-> objects[2],
     sequences   |-> objects[3],
     views       |-> objects[4],
     cols        |-> [t \in { ts[k] : k \in 1..Len(ts) } |-> 1],
     rows        |-> [t \in { ts[k] : k \in 1..Len(ts) } |-> nrows]]

-----------------------------------------------------------------------------
(* SchemaDumper: the sections of a dump *)

\* One line of the dump: a statement is kept as its leading keywords (kind)
\* and the names it is built from; a comment as its title; "" is a blank line.
\* A statement that spans several lines of the text is kept as one line.
Line(kind, schema, table, name) ==
    [kind |-> kind, title |-> "", schema |-> schema, table |-> table, name |-> name]

Comment(title) ==
    [kind |-> "--", title |-> title, schema |-> << >>, table |-> << >>, name |-> << >>]

Blank == Line("", << >>, << >>, << >>)

\* the three comment lines and the blank line that open a section
SectionHeader(title) == << Comment("===="), Comment(title), Comment("===="), Blank >>

Digits == << "1", "2", "3", "4", "5", "6", "7", "8", "9" >>

\* the k-th extension, enum type, sequence or view of a schema
ObjName(k) == << "o", Digits[k] >>

\* _get_all_tables
GetAllTables(schema) == catalog.s[schema].tables

\* _dump_extensions
DumpExtensions ==
    IF catalog.extensions > 0
    THEN SectionHeader("EXTENSIONS")
         \o [k \in 1..catalog.extensions |->
                Line("CREATE EXTENSION", << >>, << >>, ObjName(k))]
         \o << Blank >>
    ELSE << >>

\* _dump_enums
DumpEnums(schema) ==
    IF catalog.s[schema].enums > 0
    THEN SectionHeader("ENUM TYPES")
         \o [k \in 1..catalog.s[schema].enums |->
                Line("CREATE TYPE", schema, << >>, ObjName(k))]
         \o << Blank >>
    ELSE << >>

\* _dump_sequences: the table list is not used
DumpSequences(schema, tbls) ==
    IF catalog.s[schema].sequences > 0
    THEN SectionHeader("SEQUENCES")
         \o [k \in 1..catalog.s[schema].sequences |->
                Line("CREATE SEQUENCE", schema, << >>, ObjName(k))]
         \o << Blank >>
    ELSE << >>

\* _dump_table
DumpTable(schema, table_name) ==
    << Comment("Table"), Line("CREATE TABLE", schema, table_name, << >>) >>

\* for table_name in target_tables: lines.extend(_dump_table(...)); lines.append("")
RECURSIVE DumpTables(_, _)
DumpTables(schema, tbls) ==
    IF tbls = << >> THEN << >>
    ELSE DumpTable(schema, Head(tbls)) \o << Blank >> \o DumpTables(schema, Tail(tbls))

\* fk_rows = [r for r in rows if r[1] in tables] if tables else rows
FkRowsOf(schema, tbls) ==
    LET InTables(r) == InList(r.table_name, tbls)
    IN  IF tbls # << >> THEN SelectSeq(catalog.s[schema].fks, InTables)
        ELSE catalog.s[schema].fks

\* _dump_foreign_keys
DumpForeignKeys(schema, tbls) ==
    LET fk_rows == FkRowsOf(schema, tbls)
    IN  IF fk_rows # << >>
        THEN SectionHeader("FOREIGN KEYS")
             \o [k \in 1..Len(fk_rows) |->
                    Line("ALTER TABLE ADD CONSTRAINT", schema,
                         fk_rows[k].table_name, fk_rows[k].conname)]
             \o << Blank >>
        ELSE << >>

\* the query of _dump_indexes: indexdef NOT LIKE '%UNIQUE%' AND indexname NOT IN
\* (the names of the PRIMARY KEY and UNIQUE constraints of the schema)
IndexQuery(schema) ==
    LET Wanted(r) ==
            /\ ~Contains(r.indexdef, << "U", "N", "I", "Q", "U", "E" >>)
            /\ r.indexname \notin catalog.s[schema].constraints
    IN  SelectSeq(catalog.s[schema].pg_indexes, Wanted)

\* _index_belongs_to
IndexBelongsTo(indexdef, tbls) ==
    LET upper == Upper(indexdef)
    IN  \E k \in 1..Len(tbls) :
            \/ Contains(indexdef, << " ", "O", "N", " " >> \o Quoted(tbls[k]))
            \/ Contains(upper, << " ", "O", "N", " " >> \o tbls[k])

\* idx_rows = [r for r in rows if _index_belongs_to(r[1], tables)] if tables else rows
IndexRowsOf(schema, tbls) ==
    LET Belongs(r) == IndexBelongsTo(r.indexdef, tbls)
    IN  IF tbls # << >> THEN SelectSeq(IndexQuery(schema), Belongs)
        ELSE IndexQuery(schema)

\* _dump_indexes: the line of an index is its definition followed by ";"
DumpIndexes(schema, tbls) ==
    LET idx_rows == IndexRowsOf(schema, tbls)
    IN  IF idx_rows # << >>
        THEN SectionHeader("INDEXES")
             \o [k \in 1..Len(idx_rows) |->
                    Line("CREATE INDEX", << >>, << >>, idx_rows[k].indexname)]
             \o << Blank >>
        ELSE << >>

\* _dump_views: the CREATE OR REPLACE VIEW line, the definition, a blank line
DumpViews(schema) ==
    LET ViewLines(k) == << Line("CREATE OR REPLACE VIEW", schema, << >>, ObjName(k)), Blank >>
        Views[k \in 0..catalog.s[schema].views] ==
            IF k = 0 THEN << >> ELSE Views[k - 1] \o ViewLines(k)
    IN  IF catalog.s[schema].views > 0
        THEN SectionHeader("VIEWS") \o Views[catalog.s[schema].views]
        ELSE << >>

-----------------------------------------------------------------------------
(* SchemaDumper.dump and SchemaDumper.dump_database *)

Range(seq) == { seq[k] : k \in 1..Len(seq) }

\* tables of the schema dumped by dump()
TableLists == { << >>, << TableA >>, << TableT, TableTx >>, << TableT, TableA >> }

\* the tables argument of dump(): None or a list of names
None == [given |-> FALSE, list |-> << >>]

TableFilters ==
    { None } \cup
    { [given |-> TRUE, list |-> l] :
        l \in { << >>, << TableT >>, << TableTx >>, << TableA >>, << TableA, TableT >> } }

CuratedProfiles ==
    { [fk |-> FALSE, index |-> "none"],  [fk |-> TRUE,  index |-> "plain"],
      [fk |-> FALSE, index |-> "plain"], [fk |-> FALSE, index |-> "unique"],
      [fk |-> TRUE,  index |-> "pkey"] }

\* numbers of extensions, enum types, sequences and views
ObjectCounts == { << 0, 0, 0, 0 >>, << 1, 1, 1, 1 >>, << 0, 1, 0, 1 >> }

\* include_data, and the number of rows of each table
DataChoices ==
    { [include_data |-> FALSE, rows |-> 0] } \cup
    { [include_data |-> TRUE, rows |-> n] : n \in 0..MaxRows }

\* databases with the one schema public, for dump()
SchemaCatalogs(nrows) ==
    UNION { { [extensions |-> o[1],
               schemas    |-> << Public >>,
               s          |-> [sc \in { Public } |->
                                 SchemaCatalog(Public, ts, pf, form, o, nrows)]] :
                pf \in [Range(ts) -> CuratedProfiles], form \in RefForms, o \in ObjectCounts } :
            ts \in TableLists }

\* tables of one schema of the databases dumped by dump_database()
DbTableLists == { << >>, << TableT >>, << TableT, TableTx >> }

DbProfiles == { [fk |-> FALSE, index |-> "none"], [fk |-> TRUE, index |-> "plain"] }

\* _get_user_schemas: ORDER BY nspname = 'public' DESC, nspname
SchemaLists == { << Public >>, << Public, Sales >> }

DbSchemaCatalogs(schema, o, nrows) ==
    UNION { { SchemaCatalog(schema, ts, pf, "qualified", o, nrows) :
                pf \in [Range(ts) -> DbProfiles] } : ts \in DbTableLists }

DatabaseCatalogs(nrows) ==
    UNION { { [extensions |-> o[1], schemas |-> scs, s |-> f] :
                f \in { g \in [Range(scs) -> UNION { DbSchemaCatalogs(sc, o, nrows) : sc \in Range(scs) }] :
                          \A sc \in Range(scs) : g[sc] \in DbSchemaCatalogs(sc, o, nrows) } } :
            scs \in SchemaLists, o \in ObjectCounts }

\* databases for the data section: tables with zero or one column and with
\* fewer rows than a batch, a whole number of batches, or more
DataCatalogs ==
    UNION { { [extensions |-> 0,
               schemas    |-> << Public >>,
               s          |-> [sc \in { Public } |->
                                 [SchemaCatalog(Public, ts, [t \in Range(ts) |-> [fk |-> FALSE, index |-> "none"]],
                                                "plain", << 0, 0, 0, 0 >>, 0)
                                      EXCEPT !.cols = c, !.rows = r]]] :
                c \in [Range(ts) -> 0..1], r \in [Range(ts) -> 0..(MaxBatch + 1)] } :
            ts \in { << TableA >>, << TableT, TableA >> } }

\* the tables argument of the dumps with data: None, the tables in another
\* order, a name that is no table of the schema
DataFilters ==
    { None, [given |-> TRUE, list |-> << TableA, TableT >>],
      [given |-> TRUE, list |-> << TableTx, TableA >>] }

InitDump ==
    /\ dpc = "idle"
    /\ \/ \E d \in DataChoices :
             /\ \/ /\ catalog \in SchemaCatalogs(d.rows)
                   /\ call \in { [entry |-> "dump", tables |-> f,
                                  include_data |-> d.include_data, schema |-> Public] :
                                  f \in TableFilters }
                \/ /\ catalog \in DatabaseCatalogs(d.rows)
                   /\ call = [entry |-> "dump_database", tables |-> None,
                              include_data |-> d.include_data, schema |-> Public]
             /\ batch_size = MaxBatch
       \/ /\ catalog \in DataCatalogs
          /\ call \in { [entry |-> "dump", tables |-> f,
                         include_data |-> TRUE, schema |-> Public] : f \in DataFilters }
          /\ batch_size \in 1..MaxBatch
    /\ dIdx = 0
    /\ cursor = << >>
    /\ dfetches = << >>
    /\ dargs = << >>
    /\ target_tables = << >>
    /\ dlines = << >>
    /\ sIdx = 0
    /\ dblines = << >>
    /\ total_tables = 0
    /\ dout = << >>
    /\ SplitIdle
    /\ ExecIdle
    /\ VerifyIdle
    /\ FormatIdle
    /\ UiIdle
    /\ ServicesIdle

\* dumper.dump(tables, include_data, schema)
Dump ==
    /\ dpc = "idle"
    /\ call.entry = "dump"
    /\ dargs' = [tables |-> call.tables, include_data |-> call.include_data,
                 schema |-> call.schema, skip_header |-> FALSE, skip_extensions |-> FALSE]
    /\ dpc' = "dump"
    /\ UNCHANGED <<catalog, call, target_tables, dlines, sIdx, dblines, total_tables, dout>>
    /\ UNCHANGED dataVars
    /\ UNCHANGED nonDumpVars

\* lines = []; the header unless _skip_header; target_tables
DBegin ==
    /\ dpc = "dump"
    /\ dlines' = IF ~dargs.skip_header
                 THEN << Comment("PostgreSQL Schema Dump"), Comment("Generated"),
                         Comment("Schema"), Blank >>
                 ELSE << >>
    /\ target_tables' = IF dargs.tables.given THEN dargs.tables.list
                        ELSE GetAllTables(dargs.schema)
    /\ dpc' = "extensions"
    /\ UNCHANGED <<catalog, call, dargs, sIdx, dblines, total_tables, dout>>
    /\ UNCHANGED dataVars
    /\ UNCHANGED nonDumpVars

\* if not _skip_extensions: lines.extend(self._dump_extensions(log))
DExtensions ==
    /\ dpc = "extensions"
    /\ dlines' = IF ~dargs.skip_extensions THEN dlines \o DumpExtensions ELSE dlines
    /\ dpc' = "enums"
    /\ UNCHANGED <<catalog, call, dargs, target_tables, sIdx, dblines, total_tables, dout>>
    /\ UNCHANGED dataVars
    /\ UNCHANGED nonDumpVars

\* lines.extend(self._dump_enums(schema, log))
DEnums ==
    /\ dpc = "enums"
    /\ dlines' = dlines \o DumpEnums(dargs.schema)
    /\ dpc' = "sequences"
    /\ UNCHANGED <<catalog, call, dargs, target_tables, sIdx, dblines, total_tables, dout>>
    /\ UNCHANGED dataVars
    /\ UNCHANGED nonDumpVars

\* lines.extend(self._dump_sequences(schema, target_tables, log))
DSequences ==
    /\ dpc = "sequences"
    /\ dlines' = dlines \o DumpSequences(dargs.schema, target_tables)
    /\ dpc' = "tables"
    /\ UNCHANGED <<catalog, call, dargs, target_tables, sIdx, dblines, total_tables, dout>>
    /\ UNCHANGED dataVars
    /\ UNCHANGED nonDumpVars

\* a table loop that adds the foreign keys of each table right after the table
DTablesWithForeignKeys ==
    /\ dpc = "tables"
    /\ LET WithFks[k \in 0..Len(target_tables)] ==
               IF k = 0 THEN << >>
               ELSE WithFks[k - 1] \o DumpTable(dargs.schema, target_tables[k]) \o << Blank >>
                    \o DumpForeignKeys(dargs.schema, << target_tables[k] >>)
       IN  dlines' = dlines \o WithFks[Len(target_tables)]
    /\ dpc' = "indexes"
    /\ UNCHANGED <<catalog, call, dargs, target_tables, sIdx, dblines, total_tables, dout>>
    /\ UNCHANGED dataVars
    /\ UNCHANGED nonDumpVars

\* the for loop over target_tables
DTables ==
    /\ dpc = "tables"
    /\ dlines' = dlines \o DumpTables(dargs.schema, target_tables)
    /\ dpc' = "foreign_keys"
    /\ UNCHANGED <<catalog, call, dargs, target_tables, sIdx, dblines, total_tables, dout>>
    /\ UNCHANGED dataVars
    /\ UNCHANGED nonDumpVars

\* lines.extend(self._dump_foreign_keys(schema, target_tables, log))
DForeignKeys ==
    /\ dpc = "foreign_keys"
    /\ dlines' = dlines \o DumpForeignKeys(dargs.schema, target_tables)
    /\ dpc' = "indexes"
    /\ UNCHANGED <<catalog, call, dargs, target_tables, sIdx, dblines, total_tables, dout>>
    /\ UNCHANGED dataVars
    /\ UNCHANGED nonDumpVars

\* lines.extend(self._dump_indexes(schema, target_tables, log))
DIndexes ==
    /\ dpc = "indexes"
    /\ dlines' = dlines \o DumpIndexes(dargs.schema, target_tables)
    /\ dpc' = "views"
    /\ UNCHANGED <<catalog, call, dargs, target_tables, sIdx, dblines, total_tables, dout>>
    /\ UNCHANGED dataVars
    /\ UNCHANGED nonDumpVars

\* lines.extend(self._dump_views(schema, log))
DViews ==
    /\ dpc = "views"
    /\ dlines' = dlines \o DumpViews(dargs.schema)
    /\ dpc' = "data"
    /\ UNCHANGED <<catalog, call, dargs, target_tables, sIdx, dblines, total_tables, dout>>
    /\ UNCHANGED dataVars
    /\ UNCHANGED nonDumpVars

\* if include_data: the DATA header, then the loop over target_tables
DData ==
    /\ dpc = "data"
    /\ IF dargs.include_data
       THEN /\ dlines' = dlines \o << Blank, Comment("===="), Comment("DATA"), Comment("===="), Blank >>
            /\ dIdx' = 1
            /\ dpc' = "data_loop"
       ELSE /\ dpc' = "return"
            /\ UNCHANGED <<dlines, dIdx>>
    /\ UNCHANGED <<catalog, call, dargs, target_tables, sIdx, dblines, total_tables, dout>>
    /\ UNCHANGED <<batch_size, cursor, dfetches>>
    /\ UNCHANGED nonDumpVars

\* the column names of table_name (none when the schema has no such table)
ColNames(schema, table_name) ==
    IF InList(table_name, catalog.s[schema].tables)
    THEN [k \in 1..catalog.s[schema].cols[table_name] |-> << "c", Digits[k] >>]
    ELSE << >>

\* _dump_data up to the loop: col_names; if not col_names: return lines;
\* else SELECT * opens the cursor on the rows of the table
DDataTable ==
    /\ dpc = "data_loop"
    /\ dIdx <= Len(target_tables)
    /\ LET table_name == target_tables[dIdx]
       IN  IF ColNames(dargs.schema, table_name) = << >>
           THEN /\ dIdx' = dIdx + 1
                /\ UNCHANGED <<dpc, cursor>>
           ELSE /\ cursor' = [k \in 1..catalog.s[dargs.schema].rows[table_name] |-> << Digits[k] >>]
                /\ dpc' = "fetch"
                /\ UNCHANGED dIdx
    /\ UNCHANGED <<catalog, call, dargs, target_tables, dlines, sIdx, dblines, total_tables, dout>>
    /\ UNCHANGED <<batch_size, dfetches>>
    /\ UNCHANGED nonDumpVars

\* cur.fetchmany(size)
FetchMany(size) == SubSeq(cursor, 1, IF size < Len(cursor) THEN size ELSE Len(cursor))

\* a loop that stops at the first batch that is not full
DFetchUntilShort ==
    /\ dpc = "fetch"
    /\ LET table_name == target_tables[dIdx]
           rws == FetchMany(batch_size)
       IN  /\ dfetches' = Append(dfetches, [table |-> table_name, size |-> Len(rws)])
           /\ IF Len(rws) < batch_size
              THEN /\ dIdx' = dIdx + 1
                   /\ dpc' = "data_loop"
                   /\ cursor' = << >>
                   /\ UNCHANGED dlines
              ELSE /\ dlines' = dlines \o
                        [k \in 1..Len(rws) |-> Line("INSERT INTO", dargs.schema, table_name, rws[k])]
                   /\ cursor' = SubSeq(cursor, Len(rws) + 1, Len(cursor))
                   /\ UNCHANGED <<dpc, dIdx>>
    /\ UNCHANGED <<catalog, call, dargs, target_tables, sIdx, dblines, total_tables, dout>>
    /\ UNCHANGED batch_size
    /\ UNCHANGED nonDumpVars

\* one turn of while True: rows = cur.fetchmany(SCHEMA_DUMP_BATCH_SIZE);
\* if not rows: break (the log, return lines); else one INSERT per row
DFetch ==
    /\ dpc = "fetch"
    /\ LET table_name == target_tables[dIdx]
           rws == FetchMany(batch_size)
       IN  /\ dfetches' = Append(dfetches, [table |-> table_name, size |-> Len(rws)])
           /\ IF rws = << >>
              THEN /\ dIdx' = dIdx + 1
                   /\ dpc' = "data_loop"
                   /\ UNCHANGED <<dlines, cursor>>
              ELSE /\ dlines' = dlines \o
                        [k \in 1..Len(rws) |-> Line("INSERT INTO", dargs.schema, table_name, rws[k])]
                   /\ cursor' = SubSeq(cursor, Len(rws) + 1, Len(cursor))
                   /\ UNCHANGED <<dpc, dIdx>>
    /\ UNCHANGED <<catalog, call, dargs, target_tables, sIdx, dblines, total_tables, dout>>
    /\ UNCHANGED batch_size
    /\ UNCHANGED nonDumpVars

\* the for loop over target_tables is exhausted
DDataDone ==
    /\ dpc = "data_loop"
    /\ dIdx > Len(target_tables)
    /\ dpc' = "return"
    /\ UNCHANGED <<catalog, call, dargs, target_tables, dlines, sIdx, dblines, total_tables, dout>>
    /\ UNCHANGED dataVars
    /\ UNCHANGED nonDumpVars

\* return "\n".join(lines), to the caller of dump()
DReturn ==
    /\ dpc = "return"
    /\ call.entry = "dump"
    /\ dout' = dlines
    /\ dpc' = "done"
    /\ UNCHANGED <<catalog, call, dargs, target_tables, dlines, sIdx, dblines, total_tables>>
    /\ UNCHANGED dataVars
    /\ UNCHANGED nonDumpVars

\* dumper.dump_database(include_data): schemas, the header, the extensions once
DumpDatabase ==
    /\ dpc = "idle"
    /\ call.entry = "dump_database"
    /\ dblines' = << Comment("PostgreSQL Full Database Dump"), Comment("Generated"),
                     Comment("Schemas"), Blank >> \o DumpExtensions
    /\ total_tables' = 0
    /\ sIdx' = 1
    /\ dpc' = "db_loop"
    /\ UNCHANGED <<catalog, call, dargs, target_tables, dlines, dout>>
    /\ UNCHANGED dataVars
    /\ UNCHANGED nonDumpVars

\* for schema in schemas: self.dump(tables=None, ..., _skip_header=True, _skip_extensions=True)
DbCallDump ==
    /\ dpc = "db_loop"
    /\ sIdx <= Len(catalog.schemas)
    /\ dargs' = [tables |-> None, include_data |-> call.include_data,
                 schema |-> catalog.schemas[sIdx],
                 skip_header |-> TRUE, skip_extensions |-> TRUE]
    /\ dpc' = "dump"
    /\ UNCHANGED <<catalog, call, target_tables, dlines, sIdx, dblines, total_tables, dout>>
    /\ UNCHANGED dataVars
    /\ UNCHANGED nonDumpVars

\* schema_sql.strip()
NotBlank(text) == \E k \in 1..Len(text) : text[k].kind # ""

\* schema_sql = the text dump() returns; if schema_sql.strip(): the banner,
\* CREATE SCHEMA unless public, the text of the schema, a blank line
DbSchemaDumped ==
    /\ dpc = "return"
    /\ call.entry = "dump_database"
    /\ LET schema == catalog.schemas[sIdx]
           schema_sql == dlines
       IN  IF NotBlank(schema_sql)
           THEN /\ dblines' = dblines
                      \o << Comment("####"), Comment("SCHEMA"), Comment("####"), Blank >>
                      \o (IF schema # Public
                          THEN << Line("CREATE SCHEMA", schema, << >>, << >>), Blank >>
                          ELSE << >>)
                      \o schema_sql \o << Blank >>
                /\ total_tables' = total_tables + Len(GetAllTables(schema))
           ELSE UNCHANGED <<dblines, total_tables>>
    /\ sIdx' = sIdx + 1
    /\ dpc' = "db_loop"
    /\ UNCHANGED <<catalog, call, dargs, target_tables, dlines, dout>>
    /\ UNCHANGED dataVars
    /\ UNCHANGED nonDumpVars

\* the loop is exhausted: return "\n".join(lines)
DbReturn ==
    /\ dpc = "db_loop"
    /\ sIdx > Len(catalog.schemas)
    /\ dout' = dblines
    /\ dpc' = "done"
    /\ UNCHANGED <<catalog, call, dargs, target_tables, dlines, sIdx, dblines, total_tables>>
    /\ UNCHANGED dataVars
    /\ UNCHANGED nonDumpVars

NextDump ==
    \/ Dump \/ DBegin \/ DExtensions \/ DEnums \/ DSequences \/ DTables
    \/ DForeignKeys \/ DIndexes \/ DViews
    \/ DData \/ DDataTable \/ DFetch \/ DDataDone \/ DReturn
    \/ DumpDatabase \/ DbCallDump \/ DbSchemaDumped \/ DbReturn

SpecDump == InitDump /\ [][NextDump]_vars

-----------------------------------------------------------------------------
(* Claims about SchemaDumper *)

\* the kinds of statement, in the order the sections are meant to come
SectionOrder ==
    << "CREATE EXTENSION", "CREATE TYPE", "CREATE SEQUENCE", "CREATE TABLE",
       "ALTER TABLE ADD CONSTRAINT", "CREATE INDEX", "CREATE OR REPLACE VIEW",
       "INSERT INTO" >>

IsStatement(line) == \E k \in 1..Len(SectionOrder) : SectionOrder[k] = line.kind

SectionRank(line) == CHOOSE k \in 1..Len(SectionOrder) : SectionOrder[k] = line.kind

\* positions in text of the statements of one kind
StatementsOf(text, kind) == { k \in 1..Len(text) : text[k].kind = kind }

DumpDone == dpc = "done" /\ call.entry = "dump"

\* C16: in the text one dump() call returns, the statements come in the
\* order extensions, enum types, sequences, tables, foreign keys, indexes,
\* views, data; every target table has its CREATE TABLE, and every CREATE
\* TABLE comes before every ALTER TABLE ... ADD CONSTRAINT.
C16_SectionsInOrder ==
    DumpDone =>
        /\ \A i, j \in 1..Len(dout) :
              (i < j /\ IsStatement(dout[i]) /\ IsStatement(dout[j]))
                  => SectionRank(dout[i]) <= SectionRank(dout[j])
        /\ \A t \in Range(target_tables) :
              \E i \in StatementsOf(dout, "CREATE TABLE") : dout[i].table = t
        /\ \A i \in StatementsOf(dout, "CREATE TABLE") :
              \A j \in StatementsOf(dout, "ALTER TABLE ADD CONSTRAINT") : i < j

\* two tables with a foreign key each, and a statement of every kind
C16_Witness ==
    /\ DumpDone
    /\ target_tables = << TableT, TableTx >>
    /\ \A t \in { TableT, TableTx } :
          \E j \in StatementsOf(dout, "ALTER TABLE ADD CONSTRAINT") : dout[j].table = t
    /\ \A k \in 1..Len(SectionOrder) : StatementsOf(dout, SectionOrder[k]) # {}

DumpDatabaseDone == dpc = "done" /\ call.entry = "dump_database"

\* C17: in the text dump_database() returns, every CREATE TABLE of every
\* schema comes before every ALTER TABLE ... ADD CONSTRAINT of every schema.
C17_ForeignKeysAfterAllSchemasTables ==
    DumpDatabaseDone =>
        \A i \in StatementsOf(dout, "CREATE TABLE") :
            \A j \in StatementsOf(dout, "ALTER TABLE ADD CONSTRAINT") : i < j

\* positions in the text of the ALTER TABLE that adds constraint fk
FkLines(fk) ==
    { k \in StatementsOf(dout, "ALTER TABLE ADD CONSTRAINT") :
        dout[k].table = fk.table_name /\ dout[k].name = fk.conname }

\* C18: whatever list of tables dump() is given, the empty one included, a
\* foreign key of the schema is emitted (once) if its owning table is a
\* target table and is not emitted otherwise.
C18_ForeignKeysOfTargetTablesOnly ==
    DumpDone =>
        \A fk \in Range(catalog.s[call.schema].fks) :
            Cardinality(FkLines(fk)) =
                IF fk.table_name \in Range(target_tables) THEN 1 ELSE 0

\* positions in the text of the CREATE INDEX of index row r
IndexLines(r) ==
    { k \in StatementsOf(dout, "CREATE INDEX") : dout[k].name = r.indexname }

\* C19: when dump() is given a list of tables, an index the query returns is
\* emitted if and only if its table is in the list, however its definition
\* names the table.
C19_IndexEmittedIffOfFilteredTable ==
    (DumpDone /\ call.tables.given) =>
        \A r \in Range(IndexQuery(call.schema)) :
            IndexLines(r) # {} <=> r.tablename \in Range(target_tables)

\* C20: an index of a target table is left out if it is the index of a
\* PRIMARY KEY or UNIQUE constraint, and is emitted exactly once otherwise,
\* a unique index without a constraint included.
C20_OnlyConstraintIndexesLeftOut ==
    DumpDone =>
        \A r \in Range(catalog.s[call.schema].pg_indexes) :
            r.tablename \in Range(target_tables) =>
                Cardinality(IndexLines(r)) =
                    IF r.indexname \in catalog.s[call.schema].constraints THEN 0 ELSE 1

-----------------------------------------------------------------------------
(* SchemaDumper._format_value *)

\* A cell value: its Python type and, by type, the truth value, the number,
\* the bytes, the items, or the text (for a float, the text str() gives).
PyValue(type, b, n, data, items, text) ==
    [type |-> type, b |-> b, n |-> n, data |-> data, items |-> items, text |-> text]

PyNone == PyValue("NoneType", FALSE, 0, << >>, << >>, << >>)

PyBool(b) == PyValue("bool", b, (IF b THEN 1 ELSE 0), << >>, << >>, << >>)

PyInt(n) == PyValue("int", FALSE, n, << >>, << >>, << >>)

PyFloat(text) == PyValue("float", FALSE, 0, << >>, << >>, text)

PyBytes(data) == PyValue("bytes", FALSE, 0, data, << >>, << >>)

PyList(items) == PyValue("list", FALSE, 0, << >>, items, << >>)

PyStr(text) == PyValue("str", FALSE, 0, << >>, << >>, text)

\* the classes a value is an instance of: bool is a subclass of int
Classes(type) == IF type = "bool" THEN { "bool", "int" } ELSE { type }

\* isinstance(value, classes)
IsInstance(value, classes) == Classes(value.type) \cap classes # {}

DecDigits == << "0", "1", "2", "3", "4", "5", "6", "7", "8", "9" >>

RECURSIVE NatText(_)
NatText(n) ==
    IF n < 10 THEN << DecDigits[n + 1] >>
    ELSE NatText(n \div 10) \o << DecDigits[(n % 10) + 1] >>

\* str() of an int
IntText(n) == IF n < 0 THEN << "-" >> \o NatText(-n) ELSE NatText(n)

\* str(value)
Str(value) ==
    CASE value.type = "bool"  -> IF value.b THEN << "T", "r", "u", "e" >>
                                 ELSE << "F", "a", "l", "s", "e" >>
      [] value.type = "int"   -> IntText(value.n)
      [] value.type = "float" -> value.text
      [] value.type = "str"   -> value.text

HexDigits == << "0", "1", "2", "3", "4", "5", "6", "7", "8", "9",
                "a", "b", "c", "d", "e", "f" >>

\* bytes.hex()
RECURSIVE Hex(_)
Hex(data) ==
    IF data = << >> THEN << >>
    ELSE << HexDigits[(Head(data) \div 16) + 1], HexDigits[(Head(data) % 16) + 1] >>
         \o Hex(Tail(data))

\* a bytes literal with one backslash
FormatBytesOneBackslash(data) == << "E", "'", "\\", "x" >> \o Hex(data) \o << "'" >>

\* f"E'\\\\x{hex_str}'": the source text \\\\ is two backslash characters
FormatBytes(data) == << "E", "'", "\\", "\\", "x" >> \o Hex(data) \o << "'" >>

\* a text literal whose quotes are left as they are
FormatTextAsIs(text) == << "'" >> \o text \o << "'" >>

\* str.replace("'", "''")
RECURSIVE DoubleQuotes(_)
DoubleQuotes(text) ==
    IF text = << >> THEN << >>
    ELSE (IF Head(text) = "'" THEN << "'", "'" >> ELSE << Head(text) >>)
         \o DoubleQuotes(Tail(text))

\* f"'{text}'" with text = str(value).replace("'", "''")
FormatText(text) == << "'" >> \o DoubleQuotes(text) \o << "'" >>

\* ", ".join(parts)
RECURSIVE JoinComma(_)
JoinComma(parts) ==
    IF parts = << >> THEN << >>
    ELSE IF Len(parts) = 1 THEN parts[1]
    ELSE parts[1] \o << ",", " " >> \o JoinComma(Tail(parts))

\* a formatter that tests for int before bool
RECURSIVE FormatValueIntFirst(_)
FormatValueIntFirst(value) ==
    IF value.type = "NoneType" THEN << "N", "U", "L", "L" >>
    ELSE IF IsInstance(value, { "int", "float" }) THEN Str(value)
    ELSE IF IsInstance(value, { "bool" })
         THEN (IF value.b THEN << "T", "R", "U", "E" >> ELSE << "F", "A", "L", "S", "E" >>)
    ELSE IF IsInstance(value, { "bytes" }) THEN FormatBytes(value.data)
    ELSE IF IsInstance(value, { "list" })
         THEN << "A", "R", "R", "A", "Y", "[" >>
              \o JoinComma([k \in 1..Len(value.items) |-> FormatValueIntFirst(value.items[k])])
              \o << "]" >>
    ELSE FormatText(Str(value))

\* _format_value
RECURSIVE FormatValue(_)
FormatValue(value) ==
    IF value.type = "NoneType" THEN << "N", "U", "L", "L" >>
    ELSE IF IsInstance(value, { "bool" })
         THEN (IF value.b THEN << "T", "R", "U", "E" >> ELSE << "F", "A", "L", "S", "E" >>)
    ELSE IF IsInstance(value, { "int", "float" }) THEN Str(value)
    ELSE IF IsInstance(value, { "bytes" }) THEN FormatBytes(value.data)
    ELSE IF IsInstance(value, { "list" })
         THEN << "A", "R", "R", "A", "Y", "[" >>
              \o JoinComma([k \in 1..Len(value.items) |-> FormatValue(value.items[k])])
              \o << "]" >>
    ELSE FormatText(Str(value))

IntValues == { -12, 0, 1, 10 }

\* 171 is 0xAB
ByteValues == { 0, 1, 171 }

TextChars == { "a", "'" }

\* values that are not lists
Atoms ==
    { PyNone } \cup { PyBool(b) : b \in BOOLEAN } \cup { PyInt(n) : n \in IntValues }
    \cup { PyFloat(<< "1", ".", "5" >>) }
    \cup { PyBytes(d) : d \in SeqsUpTo(ByteValues, MaxBytes) }
    \cup { PyStr(t) : t \in SeqsUpTo(TextChars, MaxText) }

\* the items the lists are made of, lists among them
ListItems ==
    { PyNone, PyBool(TRUE), PyInt(1), PyStr(<< "a" >>), PyStr(<< "'" >>),
      PyBytes(<< 171 >>), PyList(<< >>), PyList(<< PyInt(1), PyStr(<< "a" >>) >>) }

CellValues == Atoms \cup { PyList(l) : l \in SeqsUpTo(ListItems, MaxItems) }

InitFormat ==
    /\ fpc = "idle"
    /\ fvalue \in CellValues
    /\ fresult = << >>
    /\ SplitIdle
    /\ ExecIdle
    /\ VerifyIdle
    /\ DumpIdle
    /\ UiIdle
    /\ ServicesIdle

\* self._format_value(value)
FormatCall ==
    /\ fpc = "idle"
    /\ fresult' = FormatValue(fvalue)
    /\ fpc' = "done"
    /\ UNCHANGED fvalue
    /\ UNCHANGED nonFormatVars

NextFormat == FormatCall

SpecFormat == InitFormat /\ [][NextFormat]_vars

-----------------------------------------------------------------------------
(* Claims about SchemaDumper._format_value *)

Formatted == fpc = "done"

\* the number a decimal text denotes (digits, with an optional minus sign)
RECURSIVE NatValue(_)
NatValue(text) ==
    IF text = << >> THEN 0
    ELSE 10 * NatValue(SubSeq(text, 1, Len(text) - 1))
         + ((CHOOSE k \in 1..10 : DecDigits[k] = text[Len(text)]) - 1)

IsDecimal(text) ==
    LET digits == IF text # << >> /\ text[1] = "-" THEN Tail(text) ELSE text
    IN  /\ digits # << >>
        /\ \A k \in 1..Len(digits) : \E d \in 1..10 : DecDigits[d] = digits[k]

DecimalValue(text) ==
    IF text[1] = "-" THEN 0 - NatValue(Tail(text)) ELSE NatValue(text)

\* C21: _format_value returns a literal for every value: None gives NULL, a
\* bool gives TRUE or FALSE, an int gives its decimal text without quotes, a
\* list gives ARRAY[...] with the items formatted the same way and joined by
\* ", "; [1, 'a'] gives ARRAY[1, 'a'].
C21_FormatValueByType ==
    Formatted =>
        /\ fresult # << >>
        /\ fvalue.type = "NoneType" => fresult = << "N", "U", "L", "L" >>
        /\ fvalue.type = "bool" =>
              fresult = IF fvalue.b THEN << "T", "R", "U", "E" >>
                        ELSE << "F", "A", "L", "S", "E" >>
        /\ fvalue.type = "int" =>
              IsDecimal(fresult) /\ DecimalValue(fresult) = fvalue.n
        /\ fvalue.type = "list" =>
              fresult = << "A", "R", "R", "A", "Y", "[" >>
                        \o JoinComma([k \in 1..Len(fvalue.items) |-> FormatValue(fvalue.items[k])])
                        \o << "]" >>
        /\ fvalue = PyList(<< PyInt(1), PyStr(<< "a" >>) >>) =>
              fresult = << "A", "R", "R", "A", "Y", "[", "1", ",", " ", "'", "a", "'", "]" >>
        /\ fvalue = PyList(<< PyBool(TRUE), PyNone >>) =>
              fresult = << "A", "R", "R", "A", "Y", "[", "T", "R", "U", "E", ",", " ",
                           "N", "U", "L", "L", "]" >>

\* [True, None] has been formatted
C21_Witness ==
    /\ Formatted
    /\ fvalue = PyList(<< PyBool(TRUE), PyNone >>)
    /\ fresult[7] = "T" /\ fresult[Len(fresult)] = "]"

CountChar(text, c) == Cardinality({ k \in 1..Len(text) : text[k] = c })

\* the value of the two hexadecimal digits at positions k and k + 1 of text
HexPairValue(text, k) ==
    16 * ((CHOOSE d \in 1..16 : HexDigits[d] = text[k]) - 1)
    + ((CHOOSE d \in 1..16 : HexDigits[d] = text[k + 1]) - 1)

\* the literal is prefix, lower-case hexadecimal digits of data, a quote
IsHexLiteral(text, prefix, data) ==
    /\ Len(text) = Len(prefix) + 2 * Len(data) + 1
    /\ SubSeq(text, 1, Len(prefix)) = prefix
    /\ text[Len(text)] = "'"
    /\ \A k \in 1..Len(data) :
          /\ \A p \in { Len(prefix) + 2 * k - 1, Len(prefix) + 2 * k } :
                \E d \in 1..16 : HexDigits[d] = text[p]
          /\ HexPairValue(text, Len(prefix) + 2 * k - 1) = data[k]

\* C22 as stated: a bytes value gives E, quote, one backslash, x, the
\* lower-case hexadecimal digits, quote.
C22_BytesLiteralOneBackslash ==
    (Formatted /\ fvalue.type = "bytes") =>
        /\ IsHexLiteral(fresult, << "E", "'", "\\", "x" >>, fvalue.data)
        /\ CountChar(fresult, "\\") = 1

\* C22 as the code has it: a bytes value gives E, quote, two backslashes, x,
\* the lower-case hexadecimal digits without separator, quote.
C22_BytesLiteralTwoBackslashes ==
    (Formatted /\ fvalue.type = "bytes") =>
        /\ IsHexLiteral(fresult, << "E", "'", "\\", "\\", "x" >>, fvalue.data)
        /\ CountChar(fresult, "\\") = 2

\* the byte 0xAB has been formatted
C22_Witness ==
    /\ Formatted
    /\ fvalue = PyBytes(<< 171 >>)
    /\ fresult = << "E", "'", "\\", "\\", "x", "a", "b", "'" >>

\* text.replace("''", "'")
RECURSIVE Undouble(_)
Undouble(text) ==
    IF text = << >> THEN << >>
    ELSE IF Len(text) >= 2 /\ text[1] = "'" /\ text[2] = "'"
         THEN << "'" >> \o Undouble(SubSeq(text, 3, Len(text)))
    ELSE << Head(text) >> \o Undouble(Tail(text))

\* every quote of text is one of a pair
RECURSIVE QuotesPaired(_)
QuotesPaired(text) ==
    IF text = << >> THEN TRUE
    ELSE IF text[1] = "'"
         THEN Len(text) >= 2 /\ text[2] = "'" /\ QuotesPaired(SubSeq(text, 3, Len(text)))
    ELSE QuotesPaired(Tail(text))

\* C23: a str value gives its text between two quotes with every quote of
\* the text doubled: the body has no quote outside a pair, and replacing
\* each pair by one quote gives the text back.
C23_TextLiteralRoundTrip ==
    (Formatted /\ fvalue.type = "str") =>
        LET body == SubSeq(fresult, 2, Len(fresult) - 1)
        IN  /\ Len(fresult) >= 2
            /\ fresult[1] = "'" /\ fresult[Len(fresult)] = "'"
            /\ QuotesPaired(body)
            /\ Undouble(body) = fvalue.text
            /\ Len(body) = Len(fvalue.text) + CountChar(fvalue.text, "'")

\* the text 'a' (with its quotes) has been formatted
C23_Witness ==
    /\ Formatted
    /\ fvalue = PyStr(<< "'", "a", "'" >>)
    /\ fresult = << "'", "'", "'", "a", "'", "'", "'" >>

-----------------------------------------------------------------------------
(* Claims about the data section of SchemaDumper.dump *)

\* the rows of the INSERT statements of table t, in the order of the text
InsertedRows(t) ==
    LET ins == SelectSeq(dout, LAMBDA l : l.kind = "INSERT INTO" /\ l.table = t)
    IN  [k \in 1..Len(ins) |-> ins[k].name]

\* the rows of table t in cursor order
StoredRows(t) == [k \in 1..catalog.s[call.schema].rows[t] |-> << Digits[k] >>]

\* the sizes of the batches fetched for table t
FetchSizes(t) ==
    LET fs == SelectSeq(dfetches, LAMBDA f : f.table = t)
    IN  [k \in 1..Len(fs) |-> fs[k].size]

\* the position in the text of the CREATE TABLE of table t
CreatePos(t) == CHOOSE i \in StatementsOf(dout, "CREATE TABLE") : dout[i].table = t

\* the tables of the INSERT statements follow the order of the CREATE TABLEs
InsertsInTableOrder ==
    \A i, j \in StatementsOf(dout, "INSERT INTO") :
        (i < j /\ dout[i].table # dout[j].table)
            => CreatePos(dout[i].table) < CreatePos(dout[j].table)

\* the fetch loop of table t, if it ran, read batches of at most batch_size
\* rows and stopped at the first empty one
FetchLoopStopped(t) ==
    LET sizes == FetchSizes(t)
    IN  sizes # << >> =>
            /\ sizes[Len(sizes)] = 0
            /\ \A k \in 1..(Len(sizes) - 1) : sizes[k] > 0 /\ sizes[k] <= batch_size

DataDumped == DumpDone /\ call.include_data

TargetTablesOfSchema ==
    Range(target_tables) \cap Range(catalog.s[call.schema].tables)

\* C24 as stated: with include_data, every target table of the schema has
\* one INSERT per row, in cursor order, whatever the batch size; the tables
\* come in the order of the CREATE TABLE section; the fetch loop of each
\* table stops at the first empty batch.
C24_OneInsertPerRow ==
    DataDumped =>
        /\ \A t \in TargetTablesOfSchema :
              InsertedRows(t) = StoredRows(t) /\ FetchLoopStopped(t)
        /\ InsertsInTableOrder

\* C24 as the code has it: the same for every target table that has at
\* least one column; a table without columns gets no INSERT and no fetch.
C24_OneInsertPerRowOfTablesWithColumns ==
    DataDumped =>
        /\ \A t \in TargetTablesOfSchema :
              IF catalog.s[call.schema].cols[t] > 0
              THEN /\ InsertedRows(t) = StoredRows(t)
                   /\ FetchSizes(t) # << >> /\ FetchLoopStopped(t)
              ELSE InsertedRows(t) = << >> /\ FetchSizes(t) = << >>
        /\ \A t \in Range(target_tables) \ TargetTablesOfSchema :
              InsertedRows(t) = << >>
        /\ InsertsInTableOrder

\* two tables with columns, one of them with a full batch and a short one
C24_Witness ==
    /\ DataDumped
    /\ target_tables = << TableA, TableT >>
    /\ batch_size = 2
    /\ FetchSizes(TableA) = << 2, 1, 0 >>
    /\ InsertedRows(TableA) = << << "1" >>, << "2" >>, << "3" >> >>
    /\ FetchSizes(TableT) = << 2, 0 >>
    /\ \E i \in StatementsOf(dout, "INSERT INTO") : dout[i].table = TableT

-----------------------------------------------------------------------------
(* MainApplication: the UI thread's handlers, the worker threads they      *)
(* start and the log queue between them.  A handler runs to its end on the *)
(* UI thread: the dialogs it opens are modal (grab_set, messagebox,        *)
(* filedialog), so what the user answers is an input of the handler.       *)

\* ConnectionService.is_connected
IsConnected ==
    service_conn # NoHandle /\ service_conn \notin closed

\* a worker thread is between reading the handle and the end of its work
InUse(h) ==
    /\ h # NoHandle
    /\ \E i \in 1..Len(threads) :
          threads[i].wpc \in {"using", "reporting"} /\ threads[i].handle = h

\* a UI-thread operation on the handle of the service, recorded when a
\* worker is using that handle
Touch(op) ==
    IF InUse(service_conn) THEN raced \cup {op} ELSE raced

InitUi ==
    /\ UiIdle
    /\ ServicesIdle
    /\ SplitIdle
    /\ ExecIdle
    /\ VerifyIdle
    /\ DumpIdle
    /\ FormatIdle

\* the branch of _toggle_connection taken when connected: close()
Disconnect ==
    /\ IsConnected
    /\ raced' = Touch("close")
    /\ closed' = closed \cup {service_conn}
    /\ service_conn' = NoHandle
    /\ buttons' = SetEnabled(FALSE)
    /\ UNCHANGED <<is_working, opened, log_queue, threads, started, refused,
                   emitted, panel>>

\* the other branch: connect(info), which closes first, succeeds or raises
Connect ==
    /\ ~IsConnected
    /\ raced' = Touch("replace")
    /\ \/ /\ opened < MaxConnects
          /\ opened' = opened + 1
          /\ service_conn' = opened + 1
          /\ buttons' = SetEnabled(TRUE)
       \/ /\ service_conn' = NoHandle
          /\ UNCHANGED <<opened, buttons>>
    /\ UNCHANGED <<is_working, closed, log_queue, threads, started, refused,
                   emitted, panel>>

\* MainApplication._toggle_connection
ToggleConnection ==
    /\ Disconnect \/ Connect
    /\ UNCHANGED nonUiVars

\* the server or the network ends the connection: handle.closed becomes 1
ConnectionLost ==
    /\ IsConnected
    /\ closed' = closed \cup {service_conn}
    /\ UNCHANGED <<is_working, service_conn, opened, buttons, log_queue,
                   threads, started, raced, refused, emitted, panel>>
    /\ UNCHANGED nonUiVars

\* MainApplication._run_in_thread
RunInThread(target) ==
    /\ started < MaxTasks
    /\ started' = started + 1
    /\ is_working' = TRUE
    /\ buttons' = SetEnabled(FALSE)
    /\ threads' = Append(threads,
                         [id |-> started + 1, task |-> target, handle |-> NoHandle,
                          wpc |-> "started", todo |-> <<>>])
    /\ emitted' = Append(emitted, <<>>)
    /\ UNCHANGED panel

\* the warning "a task is running" of a trigger: nothing starts
Refuse ==
    /\ refused' = TRUE
    /\ UNCHANGED <<is_working, service_conn, closed, opened, buttons,
                   log_queue, threads, started, raced, emitted, panel>>

\* a trigger that returns without starting anything (not connected, or the
\* user closed a dialog)
Return ==
    UNCHANGED <<is_working, service_conn, closed, opened, buttons, log_queue,
                threads, started, refused, emitted, panel>>

\* MainApplication._verify_setup without the test of _is_working
VerifySetupUnguarded ==
    /\ buttons["verify"] = "normal"
    /\ IF ~IsConnected
       THEN Return /\ UNCHANGED raced
       ELSE RunInThread("verify")
            /\ UNCHANGED <<service_conn, closed, opened, log_queue, raced,
                           refused>>
    /\ UNCHANGED nonUiVars

\* MainApplication._verify_setup, the command of the Verify button
VerifySetup ==
    /\ buttons["verify"] = "normal"
    /\ IF ~IsConnected
       THEN Return /\ UNCHANGED raced
       ELSE IF is_working
            THEN Refuse
            ELSE RunInThread("verify")
                 /\ UNCHANGED <<service_conn, closed, opened, log_queue,
                                raced, refused>>
    /\ UNCHANGED nonUiVars

\* MainApplication._sql_execute; proceed: files were chosen and confirmed
SqlExecute ==
    /\ buttons["execute"] = "normal"
    /\ IF ~IsConnected
       THEN Return /\ UNCHANGED raced
       ELSE IF is_working
            THEN Refuse
            ELSE \E proceed \in BOOLEAN :
                    IF proceed
                    THEN RunInThread("execute")
                         /\ UNCHANGED <<service_conn, closed, opened, log_queue,
                                        raced, refused>>
                    ELSE Return /\ UNCHANGED raced
    /\ UNCHANGED nonUiVars

\* MainApplication._schema_dump; select_mode: the Select Tables option, which
\* lists the tables on the UI thread; proceed: tables and a path were chosen
SchemaDump ==
    /\ buttons["dump"] = "normal"
    /\ IF ~IsConnected
       THEN Return /\ UNCHANGED raced
       ELSE IF is_working
            THEN Refuse
            ELSE \E select_mode \in BOOLEAN, proceed \in BOOLEAN :
                    /\ raced' = IF select_mode THEN Touch("query") ELSE raced
                    /\ IF proceed
                       THEN RunInThread("dump")
                            /\ UNCHANGED <<service_conn, closed, opened,
                                           log_queue, refused>>
                       ELSE Return
    /\ UNCHANGED nonUiVars

\* the messages a target puts on the queue, in order: progress and the
\* summary of execute and verify, progress and the OK of a written dump, or
\* the ERROR of an except clause (verify reports its own errors and still
\* puts its summary); usable: the handle it holds is an open connection
Messages(task, usable) ==
    IF task = "verify"
    THEN IF usable THEN {<<"INFO", "__SUMMARY__">>, <<"ERROR", "__SUMMARY__">>}
         ELSE {<<"ERROR", "__SUMMARY__">>}
    ELSE IF task = "execute"
         THEN IF usable THEN {<<"INFO", "__SUMMARY__">>, <<"ERROR">>} ELSE {<<"ERROR">>}
         ELSE IF usable THEN {<<"INFO", "OK">>, <<"ERROR">>} ELSE {<<"ERROR">>}

\* self._log_queue.put((tag, message)) by the thread with this id
Put(id, tag) ==
    /\ log_queue' = Append(log_queue, tag)
    /\ emitted' = [emitted EXCEPT ![id] = Append(@, tag)]

\* _do_schema_dump / _do_sql_execute / _do_verify: the engine is built on
\* self._conn_service.connection, read when the thread runs
WorkerBegin(i) ==
    /\ threads[i].wpc = "started"
    /\ threads' = [threads EXCEPT ![i].handle = service_conn, ![i].wpc = "using"]
    /\ UNCHANGED <<is_working, service_conn, closed, opened, buttons, log_queue,
                   started, raced, refused, emitted, panel>>
    /\ UNCHANGED nonUiVars

\* the engine call on that handle, up to the first message it puts
WorkerUse(i) ==
    /\ threads[i].wpc = "using"
    /\ \E m \in Messages(threads[i].task,
                         threads[i].handle # NoHandle
                         /\ threads[i].handle \notin closed) :
          /\ Put(threads[i].id, Head(m))
          /\ threads' = [threads EXCEPT
                           ![i].todo = Tail(m),
                           ![i].wpc = IF Tail(m) = <<>> THEN "finally" ELSE "reporting"]
    /\ UNCHANGED <<is_working, service_conn, closed, opened, buttons, started,
                   raced, refused, panel>>
    /\ UNCHANGED nonUiVars

\* the next message of the target
WorkerReport(i) ==
    /\ threads[i].wpc = "reporting"
    /\ Put(threads[i].id, Head(threads[i].todo))
    /\ threads' = [threads EXCEPT
                     ![i].todo = Tail(@),
                     ![i].wpc = IF Tail(threads[i].todo) = <<>>
                                THEN "finally" ELSE "reporting"]
    /\ UNCHANGED <<is_working, service_conn, closed, opened, buttons, started,
                   raced, refused, panel>>
    /\ UNCHANGED nonUiVars

\* a wrapper without finally: __DONE__ is put only when the target reported
\* no error
WorkerDoneOnSuccessOnly(i) ==
    /\ threads[i].wpc = "finally"
    /\ IF \E k \in 1..Len(emitted[threads[i].id]) : emitted[threads[i].id][k] = "ERROR"
       THEN UNCHANGED <<log_queue, emitted>>
       ELSE Put(threads[i].id, "__DONE__")
    /\ threads' = SubSeq(threads, 1, i - 1) \o SubSeq(threads, i + 1, Len(threads))
    /\ UNCHANGED <<is_working, service_conn, closed, opened, buttons, started,
                   raced, refused, panel>>
    /\ UNCHANGED nonUiVars

\* wrapper, finally: self._log_queue.put(("__DONE__", "")); the thread ends
WorkerDone(i) ==
    /\ threads[i].wpc = "finally"
    /\ Put(threads[i].id, "__DONE__")
    /\ threads' = SubSeq(threads, 1, i - 1) \o SubSeq(threads, i + 1, Len(threads))
    /\ UNCHANGED <<is_working, service_conn, closed, opened, buttons, started,
                   raced, refused, panel>>
    /\ UNCHANGED nonUiVars

\* the messages of a queue that reach the log panel (LogPanel.append and
\* LogPanel.set_summary); __DONE__ is not shown
Shown(q) == SelectSeq(q, LAMBDA tag : tag # "__DONE__")

\* MainApplication._poll_log_queue: drains the queue; __DONE__ ends the task
PollLogQueue ==
    /\ log_queue # <<>>
    /\ log_queue' = <<>>
    /\ panel' = panel \o Shown(log_queue)
    /\ IF \E k \in 1..Len(log_queue) : log_queue[k] = "__DONE__"
       THEN /\ is_working' = FALSE
            /\ buttons' = SetEnabled(TRUE)
       ELSE UNCHANGED <<is_working, buttons>>
    /\ UNCHANGED <<service_conn, closed, opened, threads, started, raced,
                   refused, emitted>>
    /\ UNCHANGED nonUiVars

NextUi ==
    \/ ToggleConnection
    \/ ConnectionLost
    \/ SchemaDump
    \/ SqlExecute
    \/ VerifySetup
    \/ \E i \in 1..Len(threads) : WorkerBegin(i)
    \/ \E i \in 1..Len(threads) : WorkerUse(i)
    \/ \E i \in 1..Len(threads) : WorkerReport(i)
    \/ \E i \in 1..Len(threads) : WorkerDone(i)
    \/ PollLogQueue

SpecUi == InitUi /\ [][NextUi]_vars

\* a step of a worker thread
WorkerStep ==
    \E i \in 1..Len(threads) :
        WorkerBegin(i) \/ WorkerUse(i) \/ WorkerReport(i) \/ WorkerDone(i)

\* the same machine with its scheduling: a started thread runs on to the end
\* of its wrapper (the engines block but return or raise), and the polling
\* callback re-arms itself with self.after(50, ...) at the end of every run
SpecUiLive ==
    InitUi /\ [][NextUi]_vars /\ WF_vars(WorkerStep) /\ WF_vars(PollLogQueue)

-----------------------------------------------------------------------------
(* Claims about MainApplication *)

\* C25: at most one background task is in flight at any time; a trigger
\* that arrives while a task is active starts no second worker thread.
C25_AtMostOneTaskInFlight ==
    /\ Len(threads) <= 1
    /\ threads # <<>> => is_working

\* a trigger got the warning while the only worker thread was at work, and
\* no other thread was ever started
C25_Witness ==
    /\ refused
    /\ started = 1
    /\ Len(threads) = 1 /\ threads[1].wpc = "using"

\* C26: while a task is active (from _run_in_thread until its __DONE__ is
\* processed) the Schema Dump, SQL Execute and Verify buttons are disabled.
C26_ControlsDisabledWhileWorking ==
    is_working => \A b \in Tasks : buttons[b] = "disabled"

\* C27: while a worker uses the connection handle, no UI-thread operation
\* queries, closes or replaces it.
C27_HandleNeverTouchedWhileInUse ==
    raced = {}

-----------------------------------------------------------------------------
(* Recovered errors of the executor's per-file mode and of verify.  One     *)
(* call of either engine: the engine that was not called stays idle.        *)

InitRecovery == InitExec \/ InitVerify

NextRecovery ==
    \/ VerifyIdle /\ NextExec
    \/ ExecIdle /\ NextVerify

SpecRecovery == InitRecovery /\ [][NextRecovery]_vars

\* number of messages with this tag in a log
RECURSIVE CountTag(_, _)
CountTag(l, tag) ==
    IF l = <<>> THEN 0
    ELSE (IF Head(l) = tag THEN 1 ELSE 0) + CountTag(Tail(l), tag)

\* the executor's operations of one kind that raised
FailedOps(kind) ==
    Cardinality({k \in 1..Len(ops) : ops[k].op = kind /\ ~ops[k].ok})

\* the tables whose row count raised
FailedTables == {t \in db.tables : RowCountFailed(t)}

\* C28: every recovered error is logged once and counted in the same call:
\* in per-file mode each failed statement adds one ERROR message and one to
\* error_count, each failed file read adds one ERROR message and one to
\* failed_files; in verify each failed row count adds one ERROR message and
\* stores -1 for its table.
C28_RecoveredErrorsLoggedAndCounted ==
    /\ (pc # "idle" /\ ~single_transaction) =>
          /\ CountTag(log, "ERROR") = FailedOps("execute") + FailedOps("read")
          /\ result.error_count = FailedOps("execute")
          /\ result.failed_files >= FailedOps("read")
          /\ result.failed_files <= FailedOps("read") + FailedOps("execute")
    /\ vpc # "idle" =>
          /\ CountTag(vlog, "ERROR") = Cardinality(FailedTables) + Len(vresult.errors)
          /\ \A t \in FailedTables : t \in DOMAIN rows /\ rows[t] = -1
          /\ \A t \in DOMAIN rows : rows[t] = -1 => t \in FailedTables

\* a per-file call that met a file it could not read and a statement that
\* failed, and returned
C28_Witness ==
    /\ pc = "done" /\ ~single_transaction
    /\ FailedOps("read") = 1 /\ FailedOps("execute") = 1
    /\ CountTag(log, "ERROR") = 2
    /\ result.error_count = 1 /\ result.failed_files = 2

-----------------------------------------------------------------------------
(* The splitter's comment and blank lines *)

\* the loop is about to process a blank line or a comment line
AtCommentOrBlank ==
    /\ splitPc = "loop"
    /\ lineIdx <= Len(lines)
    /\ CommentOrBlank(lines[lineIdx])

\* C29: a blank line or a comment line is appended to the buffer and nothing
\* else changes: the flag keeps its value even when the line holds $$, and no
\* statement is closed even when the line ends with a terminator.
C29_CommentOrBlankOnlyBuffered ==
    [][AtCommentOrBlank =>
          /\ split'.current = Append(split.current, lines[lineIdx])
          /\ split'.in_dollar = split.in_dollar
          /\ split'.queries = split.queries
          /\ closedAt' = closedAt]_vars

\* inside a $$ body, a comment line that holds $$ and ends with a terminator
\* was processed: the body is still open and nothing was closed
C29_Witness ==
    /\ splitPc = "loop" /\ lineIdx = 3
    /\ lines[1] = <<"a", "$", "$">>
    /\ lines[2] = <<"-", "-", "$", "$", ";">>
    /\ flagAt = <<TRUE, TRUE>>
    /\ closedAt = {}
    /\ split.current = <<lines[1], lines[2]>>

\* the docstring's example, "SELECT 1; SELECT 2;", with a for each SELECT n
TwoOnOneLine == <<"a", ";", " ", "a", ";">>

\* C30: two terminated statements written on one line are returned as two
\* statements, each with its terminator.
C30_TwoStatementsOnOneLineAreSplit ==
    (splitPc = "done" /\ sql = TwoOnOneLine) =>
        split.queries = << <<"a", ";">>, <<"a", ";">> >>

-----------------------------------------------------------------------------
(* The splitter's flush after the last line *)

\* the index of the last line that closed a statement (0 when none did)
LastClosed == IF closedAt = {} THEN 0 ELSE CHOOSE k \in closedAt : \A j \in closedAt : j <= k

\* the lines after the last closed statement
Remainder == SubSeq(lines, LastClosed + 1, Len(lines))

-----------------------------------------------------------------------------
(* The end of a task *)

\* the ids of the worker threads that are alive
LiveIds == {threads[i].id : i \in 1..Len(threads)}

\* what the threads have put so far, thread after thread
RECURSIVE Flatten(_)
Flatten(ss) == IF ss = <<>> THEN <<>> ELSE Head(ss) \o Flatten(Tail(ss))

IsPrefix(a, b) == Len(a) <= Len(b) /\ SubSeq(b, 1, Len(a)) = a

\* a thread that ended has put __DONE__ once, as its last message; a thread
\* that is alive has not put it yet
DoneOnceAndLast ==
    \A id \in 1..started :
        LET e == emitted[id] IN
        IF id \in LiveIds
        THEN \A k \in 1..Len(e) : e[k] # "__DONE__"
        ELSE /\ e # <<>>
             /\ e[Len(e)] = "__DONE__"
             /\ \A k \in 1..(Len(e) - 1) : e[k] # "__DONE__"

\* the panel shows the messages in the order they were put, and shows all of
\* them once the working flag is cleared
DeliveredInOrder ==
    /\ IsPrefix(panel, Shown(Flatten(emitted)))
    /\ ~is_working => panel = Shown(Flatten(emitted))

AllEnabled == \A b \in Tasks : buttons[b] = "normal"

\* C32: every task puts __DONE__ exactly once, as its last message, whether
\* its body returned or raised; the polling loop eventually clears the
\* working flag and enables the buttons; every message the task put is
\* delivered to the log panel, in the order it was put, before the flag is
\* cleared.
C32_TaskEndsAndIsDelivered ==
    /\ [](DoneOnceAndLast /\ DeliveredInOrder)
    /\ is_working ~> (~is_working /\ AllEnabled)

\* a task whose body raised has ended: its ERROR was delivered, the flag is
\* cleared and the buttons are enabled
C32_Witness ==
    /\ started = 1 /\ threads = <<>>
    /\ emitted = << <<"ERROR", "__DONE__">> >>
    /\ panel = <<"ERROR">>
    /\ ~is_working /\ AllEnabled

-----------------------------------------------------------------------------
(* ConnectionService called directly: any sequence of connect, close,      *)
(* test_connection and get_databases, and connections lost in between      *)

\* longest sequence of calls
MaxCalls == 4

Call(name, ok) == [call |-> name, ok |-> ok]

\* ConnectionService.close as a step of another method: the handle is closed
\* if it is open, and the reference dropped
ClosedByClose == IF IsConnected THEN closed \cup {service_conn} ELSE closed

\* a connect that drops the reference of the previous connection without
\* closing it
SvcConnectNoClose ==
    /\ Len(calls) < MaxCalls
    /\ \E ok \in BOOLEAN :
          /\ calls' = Append(calls, Call("connect", ok))
          /\ IF ok
             THEN /\ opened' = opened + 1
                  /\ service_conn' = opened + 1
             ELSE /\ service_conn' = NoHandle
                  /\ UNCHANGED opened
    /\ UNCHANGED closed
    /\ UNCHANGED nonSvcVars

\* ConnectionService.connect: close(), then psycopg2.connect, which raises
\* or returns the new handle
SvcConnect ==
    /\ Len(calls) < MaxCalls
    /\ \E ok \in BOOLEAN :
          /\ calls' = Append(calls, Call("connect", ok))
          /\ IF ok
             THEN /\ opened' = opened + 1
                  /\ service_conn' = opened + 1
             ELSE /\ service_conn' = NoHandle
                  /\ UNCHANGED opened
    /\ closed' = ClosedByClose
    /\ UNCHANGED nonSvcVars

\* ConnectionService.close
SvcClose ==
    /\ Len(calls) < MaxCalls
    /\ calls' = Append(calls, Call("close", TRUE))
    /\ closed' = ClosedByClose
    /\ service_conn' = NoHandle
    /\ UNCHANGED opened
    /\ UNCHANGED nonSvcVars

\* ConnectionService.test_connection: a connection of its own, closed at once
SvcTestConnection ==
    /\ Len(calls) < MaxCalls
    /\ \E ok \in BOOLEAN :
          /\ calls' = Append(calls, Call("test_connection", ok))
          /\ IF ok
             THEN /\ opened' = opened + 1
                  /\ closed' = closed \cup {opened + 1}
             ELSE UNCHANGED <<opened, closed>>
    /\ UNCHANGED service_conn
    /\ UNCHANGED nonSvcVars

\* ConnectionService.get_databases: a connection of its own to 'postgres',
\* closed in the finally clause whether the query returns or raises
SvcGetDatabases ==
    /\ Len(calls) < MaxCalls
    /\ \E connected \in BOOLEAN, ok \in BOOLEAN :
          /\ calls' = Append(calls, Call("get_databases", connected /\ ok))
          /\ IF connected
             THEN /\ opened' = opened + 1
                  /\ closed' = closed \cup {opened + 1}
             ELSE UNCHANGED <<opened, closed>>
    /\ UNCHANGED service_conn
    /\ UNCHANGED nonSvcVars

NextConn ==
    \/ SvcConnect
    \/ SvcClose
    \/ SvcTestConnection
    \/ SvcGetDatabases
    \/ ConnectionLost

SpecConn == InitUi /\ [][NextConn]_vars

\* the handles that are open connections
OpenHandles == (1..opened) \ closed

LastCall == calls[Len(calls)]

\* the step is a call of this method
Calls(name) == Len(calls') = Len(calls) + 1 /\ calls'[Len(calls')].call = name

\* C33: the service holds at most one open connection, and no connection is
\* open that it does not hold; connect closes the previous connection before
\* it opens the new one, so that a failed connect leaves no active
\* connection; close leaves is_connected false and a second close changes
\* nothing; test_connection and get_databases leave the active connection
\* as it was.
C33_AtMostOneOpenConnection ==
    /\ [](OpenHandles \subseteq {service_conn})
    /\ [][Calls("connect") =>
             /\ service_conn \in closed' \cup {NoHandle}
             /\ IF calls'[Len(calls')].ok
                THEN service_conn' = opened' /\ opened' = opened + 1
                     /\ service_conn' \notin closed'
                ELSE service_conn' = NoHandle]_vars
    /\ [][Calls("close") =>
             /\ service_conn' = NoHandle
             /\ service_conn \in closed' \cup {NoHandle}
             /\ (calls # <<>> /\ LastCall.call = "close") =>
                   UNCHANGED <<service_conn, closed, opened>>]_vars
    /\ [][Calls("test_connection") \/ Calls("get_databases") =>
             /\ service_conn' = service_conn
             /\ (service_conn \in closed') = (service_conn \in closed)]_vars

\* connect on a connected service, then test_connection: the first handle
\* was closed, the second one is the only open one, the test's is closed
C33_Witness ==
    /\ calls = <<Call("connect", TRUE), Call("connect", TRUE),
                 Call("test_connection", TRUE)>>
    /\ opened = 3 /\ closed = {1, 3} /\ service_conn = 2

-----------------------------------------------------------------------------
(* PresetManager on a preset file that starts empty *)

PresetNames == {"a", "b", "c"}

\* the records the connection panel builds: port is an int, name may be empty
ConnectionInfos ==
    [host : {"h1", "h2"}, port : {5432, 5433}, user : {"postgres"},
     password : {""}, dbname : {"postgres"}, name : PresetNames \cup {""}]

Fields == {"host", "port", "user", "password", "dbname", "name"}

\* ConnectionInfo.to_dict: asdict, every field under its name
ToDict(info) == [k \in Fields |-> info[k]]

\* dict.get(key, default)
DictGet(d, key, default) == IF key \in DOMAIN d THEN d[key] ELSE default

\* ConnectionInfo.from_dict: missing keys take the defaults; int(port) of a
\* JSON number is that number
FromDict(d) ==
    [host     |-> DictGet(d, "host", "localhost"),
     port     |-> DictGet(d, "port", 5432),
     user     |-> DictGet(d, "user", "postgres"),
     password |-> DictGet(d, "password", ""),
     dbname   |-> DictGet(d, "dbname", "postgres"),
     name     |-> DictGet(d, "name", "")]

\* a save that appends without looking for the name
SavedAlwaysAppend(data, info) == Append(data, ToDict(info))

\* PresetManager.save, the list written: the first entry of that name is
\* replaced, or the record is appended
Saved(data, info) ==
    LET hits == {i \in 1..Len(data) : DictGet(data[i], "name", "") = info.name} IN
    IF hits # {}
    THEN LET first == CHOOSE i \in hits : \A j \in hits : i <= j
         IN  [data EXCEPT ![first] = ToDict(info)]
    ELSE Append(data, ToDict(info))

\* PresetManager.delete, the list written
Deleted(data, name) ==
    SelectSeq(data, LAMBDA item : DictGet(item, "name", "") # name)

\* PresetManager.get; NoPreset is None
NoPreset == [name |-> "", found |-> FALSE]

PresetGet(name) ==
    LET hits == {i \in 1..Len(preset_file) :
                    DictGet(preset_file[i], "name", "") = name} IN
    IF hits # {}
    THEN FromDict(preset_file[CHOOSE i \in hits : \A j \in hits : i <= j])
    ELSE NoPreset

\* PresetManager.save(info): ValueError for an empty name; _write_file
\* either writes the list or raises on open and leaves the file as it was
PresetSave ==
    /\ \E info \in ConnectionInfos, written \in BOOLEAN :
          IF info.name = ""
          THEN /\ pcall' = [op |-> "save", info |-> info, before |-> preset_file,
                            raised |-> TRUE]
               /\ UNCHANGED preset_file
          ELSE /\ pcall' = [op |-> "save", info |-> info, before |-> preset_file,
                            raised |-> ~written]
               /\ preset_file' = IF written THEN Saved(preset_file, info)
                                 ELSE preset_file
    /\ UNCHANGED nonPresetVars

\* PresetManager.delete(name): nothing is written when the name is absent
PresetDelete ==
    /\ \E name \in PresetNames \cup {""}, written \in BOOLEAN :
          LET filtered == Deleted(preset_file, name) IN
          IF Len(filtered) = Len(preset_file)
          THEN /\ pcall' = [op |-> "delete", name |-> name, before |-> preset_file,
                            raised |-> FALSE]
               /\ UNCHANGED preset_file
          ELSE /\ pcall' = [op |-> "delete", name |-> name, before |-> preset_file,
                            raised |-> ~written]
               /\ preset_file' = IF written THEN filtered ELSE preset_file
    /\ UNCHANGED nonPresetVars

NextPreset == PresetSave \/ PresetDelete

SpecPreset == InitUi /\ [][NextPreset]_vars

\* the names of the entries of a list, in order
NamesOf(data) == [i \in 1..Len(data) |-> DictGet(data[i], "name", "")]

UniqueNames(data) ==
    \A i, j \in 1..Len(data) : NamesOf(data)[i] = NamesOf(data)[j] => i = j

\* the last call was a save that returned
SaveReturned == pcall.op = "save" /\ ~pcall.raised

\* C34: after any sequence of save and delete calls on a file that was
\* empty, preset names are unique; a save of an existing name replaces that
\* entry in place and leaves every other entry where and as it was, a save
\* of a new name appends it; get(name) after save(info) is equal to info.
C34_PresetsUniqueAndSavedInPlace ==
    /\ UniqueNames(preset_file)
    /\ SaveReturned =>
          LET b == pcall.before
              d == ToDict(pcall.info)
              n == pcall.info.name
          IN  /\ IF \E i \in 1..Len(b) : NamesOf(b)[i] = n
                 THEN /\ Len(preset_file) = Len(b)
                      /\ \A i \in 1..Len(b) :
                            preset_file[i] = IF NamesOf(b)[i] = n THEN d ELSE b[i]
                 ELSE preset_file = Append(b, d)
              /\ PresetGet(n) = pcall.info

\* three presets are stored and the first one was just saved again with
\* another content: it is still the first, the two others are as they were
C34_Witness ==
    /\ SaveReturned
    /\ Len(preset_file) = 3 /\ Len(pcall.before) = 3
    /\ NamesOf(pcall.before)[1] = pcall.info.name
    /\ pcall.before[1] # preset_file[1]
    /\ preset_file[1] = ToDict(pcall.info)
    /\ preset_file[2] = pcall.before[2] /\ preset_file[3] = pcall.before[3]

-----------------------------------------------------------------------------
(* Claims about the counters of ExecutionResult *)

\* the failed statements of the f-th file
FailedExecutesOf(f) == { i \in FailedExecutes : ops[i].f = f }

\* C35: at every point of a call of execute_files, in either mode,
\* successCount + errorCount <= totalQueries; when the call returns,
\* errorCount <= failedFiles, errorCount <= 1 in single-transaction mode, and
\* in per-file mode errorCount is at most the number of files, at most one
\* failing statement having been executed per file.
C35_ErrorCountBounds ==
    /\ result.success_count + result.error_count <= result.total_queries
    /\ result.error_count = Cardinality(FailedExecutes)
    /\ pc = "done" =>
          /\ result.error_count <= result.failed_files
          /\ single_transaction => result.error_count <= 1
          /\ ~single_transaction =>
                /\ result.error_count <= Len(file_paths)
                /\ \A f \in 1..Len(file_paths) : Cardinality(FailedExecutesOf(f)) <= 1

\* a per-file call returned after a statement failed in each of two files,
\* one of them with a statement left that was never executed, and after a
\* third file could not be read: two errors, three failed files
C35_Witness ==
    /\ ~single_transaction
    /\ pc = "done"
    /\ result.error_count = 2
    /\ result.failed_files = 3
    /\ FailedReads # {}
    /\ result.success_count + result.error_count < result.total_queries

\* C36 as stated: in single-transaction mode successFiles on return counts
\* only files whose statements were committed; when the call ends in a
\* rollback (statement or read failure in any file), successFiles is 0.
C36_SuccessFilesZeroAfterRollback ==
    (single_transaction /\ pc = "done" /\ Rollbacks # {}) =>
        result.success_files = 0

\* C36, amended: in single-transaction mode successFiles on return is the
\* number of files that were read and whose statements all ran without a
\* failure: every file when the call committed, and the files before the
\* failing one when it ended in a rollback, although nothing of them is
\* committed then.
C36_SuccessFilesCountsFilesRun ==
    (single_transaction /\ pc = "done") =>
        /\ result.success_files =
              Cardinality({ f \in 1..Len(file_paths) : FileSucceeded(f) })
        /\ Rollbacks = {} => result.success_files = result.total_files
        /\ \A i \in Rollbacks :
              /\ result.success_files = ops[i].f - 1
              /\ conn.committed = {}

\* a single-transaction call returned after a rollback caused by the third
\* file: the two files before it are counted, their statements are not
\* committed
C36_Witness ==
    /\ single_transaction
    /\ pc = "done"
    /\ Rollbacks # {}
    /\ result.success_files = 2
    /\ result.success_count >= 2
    /\ conn.committed = {}

-----------------------------------------------------------------------------
(* Claims about VerificationResult.errors *)

\* the tables whose count(*) raised
FailedRowCounts == { t \in db.tables : RowCountFailed(t) }

\* C37: after verify returns, errors holds at most one entry, and holds one
\* exactly when an exception left the outer sequence of steps; a row-count
\* failure of a table is recorded as the sentinel -1 only and adds no entry
\* to errors.
C37_ErrorsHoldsTheEscapedException ==
    /\ Len(vresult.errors) <= 1
    /\ vpc = "done" =>
          /\ Len(vresult.errors) = 1 <=> \E s \in VSteps : StepFailed(s)
          /\ \A k \in 1..Len(vresult.errors) : vresult.errors[k] \in VSteps
          /\ StepOk("count_sequences") =>
                \A t \in FailedRowCounts : vresult.table_rows[t] = -1

\* the row counts of two tables failed and later the view count raised: two
\* sentinels, and the one entry of errors is that of the view count
C37_Witness ==
    /\ vpc = "done"
    /\ Cardinality(FailedRowCounts) = 2
    /\ \A t \in FailedRowCounts : vresult.table_rows[t] = -1
    /\ StepFailed("count_views")
    /\ vresult.errors = << "count_views" >>

-----------------------------------------------------------------------------
(* Claims about the task buttons and the connection *)

\* C38: in every reachable state of the UI the Schema Dump, SQL Execute and
\* Verify buttons are enabled only if the connection service is connected,
\* for any interleaving of connect, disconnect, task start and __DONE__.
\* Checked in the weaker form "only if the service holds a handle", so that
\* a connection the server ended behind the UI is no violation.
C38_ControlsEnabledOnlyIfConnected ==
    (\E b \in Tasks : buttons[b] = "normal") => service_conn # NoHandle

=============================================================================
